---- MODULE Spec2Model ----
(***************************************************************************)
(* A model of scopereader.py, the serial client of a Fluke ScopeMeter.     *)
(*                                                                         *)
(* The serial link is modelled at the byte level.  rx holds the bytes the  *)
(* instrument has sent that the client has not read yet; a port.read(n)    *)
(* takes up to n of them, and a read that finds fewer than n is a read     *)
(* that timed out.  The instrument is the environment: when a command is   *)
(* written it answers with one of a small set of replies (a good one, one  *)
(* with a damaged byte, or one cut short).                                 *)
(***************************************************************************)
EXTENDS Integers, Sequences, FiniteSets, TLC

VARIABLES
    pc,         \* the client's position in the program
    err,        \* why the program ended early ("" while it has not)
    args,       \* the command line options (processArguments)
    baud,       \* port.baudrate
    rx,         \* bytes sent by the instrument and not read yet
    sent,       \* commands written by the current top-level operation
    dataLength, \* screenshot: remaining expected length
    image,      \* screenshot: output buffer
    status,     \* screenshot: payload of the next status command
    retries,    \* screenshot: consecutive checksum failures
    total,      \* screenshot: the length announced before the first round
    rounds,     \* screenshot: what each round so far received
    inp,        \* the arguments of the decode primitive under study
    ret,        \* what the decode primitive handed back
    waveform_type,  \* waveforms: the menu entry chosen (-1 before)
    waveforms,  \* waveforms: the list of waveforms acquired or derived
    traces,     \* waveforms: what the instrument sent for each QW, and
                \* what waveform() made of it
    measurement_type,   \* measurement: the menu entry chosen (-1 before)
    measurement_number, \* measurement: the pass of the loop of line 705
    readings,   \* measurement: the readings offered for selection
    measurement,        \* measurement: the result being built
    first,      \* measurement: the result of the first pass
    metadata,   \* measurement: what the instrument sent for QM, and the
                \* operator's selection
    measurements,       \* measurements: the measurements retained
    names,      \* measurements: the titles entered so far
    values      \* measurements: the values formatted so far

vars == <<pc, err, args, baud, rx, sent, dataLength, image, status, retries,
          total, rounds, inp, ret, waveform_type, waveforms, traces,
          measurement_type, measurement_number, readings, measurement, first,
          metadata, measurements, names, values>>

shotVars == <<dataLength, image, status, retries, total, rounds>>

waveVars == <<waveform_type, waveforms, traces>>

reportVars == <<measurements, names, values>>

measVars ==
    <<measurement_type, measurement_number, readings, measurement, first,
      metadata, measurements, names, values>>

----------------------------------------------------------------------------
(* Bounds of the model. *)

MaxTotal == 2
MaxSeg == 1
MaxRounds == 3
MaxField == 3
MaxGroups == 2
MaxRaw == 4

----------------------------------------------------------------------------
(* Bytes the code names. *)

ChCR == 13
ChHash == 35
ChPlus == 43
ChComma == 44
ChMinus == 45
ChDot == 46
Ch0 == 48
Ch9 == 57
ChSemi == 59
ChE == 69
FinalBit == 128
InitialBaud == 1200
FastBaud == 19200
RetryLimit == 3

(* Two bytes the protocol gives no meaning: 'x' and 'a'. *)
OtherBytes == <<120, 97>>

ChX == OtherBytes[1]

ChA == OtherBytes[2]

Digit(d) == Ch0 + d

IsDigit(b) == Ch0 <= b /\ b <= Ch9

(* port.read(n): the first n bytes of the stream, or all of it when it is
   shorter (the read timed out). *)
Take(s, n) == SubSeq(s, 1, IF n < Len(s) THEN n ELSE Len(s))

Drop(s, n) == SubSeq(s, (IF n < Len(s) THEN n ELSE Len(s)) + 1, Len(s))

Prefixes(s) == {SubSeq(s, 1, k) : k \in 0..Len(s)}

RECURSIVE ByteSum(_)
ByteSum(s) == IF s = <<>> THEN 0 ELSE (s[1] + ByteSum(Tail(s))) % 256

(* checksum(data, check) *)
checksum(data, check) == ByteSum(data) = check

RECURSIVE getUInt(_)
getUInt(data) ==
    IF data = <<>> THEN 0
    ELSE getUInt(SubSeq(data, 1, Len(data) - 1)) * 256 + data[Len(data)]

(* An unsigned value as n big-endian bytes (what the instrument sends). *)
RECURSIVE UIntBytes(_, _)
UIntBytes(v, n) ==
    IF n = 0 THEN <<>> ELSE UIntBytes(v \div 256, n - 1) \o <<v % 256>>

----------------------------------------------------------------------------
(* sendCommand: the outcome the acknowledgement bytes decide.  `timeout'
   is the parameter of the same name: FALSE is the tolerant mode. *)

AckCode_commAsUnknown(code) ==
    CASE code = 0 -> "Success"
      [] code = 1 -> "SyntaxError"
      [] code = 2 -> "ExecutionError"
      [] code = 3 -> "SyncError"
      [] OTHER -> "UnknownCode"

AckCode(code) ==
    CASE code = 0 -> "Success"
      [] code = 1 -> "SyntaxError"
      [] code = 2 -> "ExecutionError"
      [] code = 3 -> "SyncError"
      [] code = 4 -> "CommError"
      [] OTHER -> "UnknownCode"

AckOutcome_neverTolerant(ack, timeout) ==
    IF Len(ack) # 2 THEN "Timeout"
    ELSE IF ack[2] # ChCR THEN "MalformedAck"
    ELSE IF ~IsDigit(ack[1]) THEN "ValueError"
    ELSE AckCode(ack[1] - Ch0)

AckOutcome(ack, timeout) ==
    IF Len(ack) # 2
    THEN (IF timeout THEN "Timeout" ELSE "NoAck")
    ELSE IF ack[2] # ChCR THEN "MalformedAck"
    ELSE IF ~IsDigit(ack[1]) THEN "ValueError"
    ELSE AckCode(ack[1] - Ch0)

(* Whether sendCommand returns to its caller (the others end in exit(1) or
   in an uncaught exception). *)
Returns(outcome) == outcome \in {"Success", "NoAck"}

----------------------------------------------------------------------------
(* getDecimal.  A number is kept exactly, as m / 10^e, with e as small as
   it can be; kind is the Python type of the value: "int", "float", or
   "None" for the value None. *)

NoByte == -1

NoNumber == [m |-> 0, e |-> 0, kind |-> "None"]

RECURSIVE Pow10(_)
Pow10(n) == IF n = 0 THEN 1 ELSE 10 * Pow10(n - 1)

RECURSIVE Normal(_, _)
Normal(m, e) ==
    IF e > 0 /\ m % 10 = 0 THEN Normal(m \div 10, e - 1) ELSE <<m, e>>

Num(m, e, kind) ==
    LET n == Normal(m, e) IN [m |-> n[1], e |-> n[2], kind |-> kind]

NumOfInt(i) == [m |-> i, e |-> 0, kind |-> "int"]

(* a - i for an integer i, the type of a kept *)
NumSubInt(a, i) == Num(a.m - i * Pow10(a.e), a.e, a.kind)

NumIsZero(a) == a.kind # "None" /\ a.m = 0

IsNumeric(byte) ==
    IsDigit(byte) \/ byte = ChDot \/ byte = ChPlus \/ byte = ChMinus

(* The position of the first byte at or after i that ends the numeric run
   (Len(s) + 1 when the stream ends first). *)
RECURSIVE RunEnd(_, _)
RunEnd(s, i) ==
    IF i > Len(s) THEN i
    ELSE IF IsNumeric(s[i]) THEN RunEnd(s, i + 1) ELSE i

AllDigits(s) == \A i \in 1..Len(s) : IsDigit(s[i])

RECURSIVE DigitsVal(_)
DigitsVal(s) ==
    IF s = <<>> THEN 0
    ELSE DigitsVal(SubSeq(s, 1, Len(s) - 1)) * 10 + (s[Len(s)] - Ch0)

HasSign(s) == Len(s) > 0 /\ (s[1] = ChPlus \/ s[1] = ChMinus)

Unsigned(s) == IF HasSign(s) THEN Tail(s) ELSE s

SignOf(s) == IF Len(s) > 0 /\ s[1] = ChMinus THEN -1 ELSE 1

DotAt(s) == CHOOSE i \in 1..Len(s) : s[i] = ChDot

(* int(number): an optional sign and at least one digit *)
IntParses(s) == Len(Unsigned(s)) > 0 /\ AllDigits(Unsigned(s))

IntValue(s) == NumOfInt(SignOf(s) * DigitsVal(Unsigned(s)))

(* float(number), for a run that holds a '.': an optional sign, digits
   around exactly one '.', at least one digit *)
FloatParses(s) ==
    LET u == Unsigned(s) IN
    /\ \E i \in 1..Len(u) : u[i] = ChDot
    /\ LET d == DotAt(u)
           whole == SubSeq(u, 1, d - 1)
           frac == SubSeq(u, d + 1, Len(u))
       IN /\ AllDigits(whole) /\ AllDigits(frac)
          /\ Len(whole) + Len(frac) > 0

FloatValue(s) ==
    LET u == Unsigned(s)
        d == DotAt(u)
        whole == SubSeq(u, 1, d - 1)
        frac == SubSeq(u, d + 1, Len(u))
    IN Num(SignOf(s) * DigitsVal(whole \o frac), Len(frac), "float")

Floating(number) == \E i \in 1..Len(number) : number[i] = ChDot

DecimalResult(kind, number, separator, used) ==
    [kind |-> kind, number |-> number, separator |-> separator, used |-> used]

(* The check of the separator the caller expects (lines 201-206). *)
SeparatorStep(sep, value, separator, used) ==
    IF sep # NoByte
    THEN IF sep # separator
         THEN DecimalResult("SeparatorMismatch", NoNumber, NoByte, used)
         ELSE DecimalResult("Number", value, NoByte, used)
    ELSE DecimalResult("Pair", value, separator, used)

(* What getDecimal returns for an empty numeric run (lines 193-194). *)
EmptyRun(sep, separator, used) ==
    DecimalResult("None", NoNumber, NoByte, used)

(* getDecimal(port, sep) on the unread bytes `stream'; sep = NoByte is the
   call without an expected separator.  kind says how the call ends:
     "Timeout", "SeparatorMismatch": exit(1);  "ValueError": int() or
     float() raised;  "None": returns None;  "Number": returns the number;
     "Pair": returns (number, separator).
   used is the number of bytes the call has read. *)
getDecimal(stream, sep) ==
    LET k == RunEnd(stream, 1)
        number == SubSeq(stream, 1, k - 1)
    IN IF k > Len(stream)
       THEN DecimalResult("Timeout", NoNumber, NoByte, Len(stream))
       ELSE IF Len(number) = 0 THEN EmptyRun(sep, stream[k], k)
       ELSE IF Floating(number) /\ ~FloatParses(number)
       THEN DecimalResult("ValueError", NoNumber, NoByte, k)
       ELSE IF ~Floating(number) /\ ~IntParses(number)
       THEN DecimalResult("ValueError", NoNumber, NoByte, k)
       ELSE SeparatorStep(sep,
                IF Floating(number) THEN FloatValue(number)
                ELSE IntValue(number),
                stream[k], k)

----------------------------------------------------------------------------
(* getHeader and getData: the block framing layer. *)

Preamble == <<ChHash, Ch0>>

HeaderSize(intSize) == 3 + intSize

PreambleOk(data) == SubSeq(data, 1, 2) = Preamble

(* getHeader(port, intSize) on the unread bytes: kind "ok" returns
   (header, size); "Timeout" and "PreambleMismatch" are exit(1).  rest is
   what the call leaves unread. *)
getHeader(stream, intSize) ==
    LET dataSize == HeaderSize(intSize)
        data == Take(stream, dataSize)
        rest == Drop(stream, dataSize)
    IN IF Len(data) # dataSize
       THEN [kind |-> "Timeout", header |-> 0, size |-> 0, rest |-> rest]
       ELSE IF ~PreambleOk(data)
       THEN [kind |-> "PreambleMismatch", header |-> 0, size |-> 0,
             rest |-> rest]
       ELSE [kind |-> "ok", header |-> data[3],
             size |-> getUInt(SubSeq(data, 4, 3 + intSize)), rest |-> rest]

DataReadSize(size) == size + 1

BlockChecksumOk_skipped(data) == TRUE

BlockChecksumOk(data) ==
    checksum(SubSeq(data, 1, Len(data) - 1), data[Len(data)])

BlockPayload(data) == SubSeq(data, 1, Len(data) - 1)

(* getData(port, size): kind "ok" returns data; "Timeout" and
   "ChecksumFailure" are exit(1). *)
getData(stream, size) ==
    LET n == DataReadSize(size)
        data == Take(stream, n)
        rest == Drop(stream, n)
    IN IF Len(data) # n
       THEN [kind |-> "Timeout", data |-> <<>>, rest |-> rest]
       ELSE IF ~BlockChecksumOk(data)
       THEN [kind |-> "ChecksumFailure", data |-> <<>>, rest |-> rest]
       ELSE [kind |-> "ok", data |-> BlockPayload(data), rest |-> rest]

----------------------------------------------------------------------------
(* The waveform decode engine: the byte-field decoders, the administrative
   record and the sample block. *)

Min(a, b) == IF a < b THEN a ELSE b

Max(a, b) == IF a < b THEN b ELSE a

(* data[a:b] with Python's clipping, a and b counted from 0 *)
Slice(data, a, b) == SubSeq(data, a + 1, Min(b, Len(data)))

RECURSIVE Pow256(_)
Pow256(n) == IF n = 0 THEN 1 ELSE 256 * Pow256(n - 1)

(* int.from_bytes(data, byteorder='big', signed=True) *)
getInt(data) ==
    IF Len(data) > 0 /\ data[1] >= 128
    THEN getUInt(data) - Pow256(Len(data))
    ELSE getUInt(data)

(* getFloat: mantissa * 10.0**exponent *)
getFloat(data) ==
    LET mantissa == getInt(Slice(data, 0, 2))
        exponent == getInt(Slice(data, 2, 3))
    IN IF exponent >= 0
       THEN Num(mantissa * Pow10(exponent), 0, "float")
       ELSE Num(mantissa, 0 - exponent, "float")

NumAdd(a, b) ==
    LET e == Max(a.e, b.e)
    IN Num(a.m * Pow10(e - a.e) + b.m * Pow10(e - b.e), e, "float")

NumMul(a, b) == Num(a.m * b.m, a.e + b.e, "float")

NumMulInt(a, i) == Num(a.m * i, a.e, "float")

(* The unit table, lines 289-311; "None" stands for the entry None. *)
units ==
    <<"None", "V", "A", "Ohm", "W", "F", "K", "s", "h", "days", "Hz",
      "deg", "degC", "degF", "%", "dBm 50 Ohm", "dBm 600 Ohm", "dBV", "dBA",
      "dBW", "VAR", "VA">>

UnitInRange_upToTwenty(index) == index <= 20

(* units[index]: the lookup raises IndexError past the table's end *)
UnitInRange(index) == index < Len(units)

UnitAt(index) == units[index + 1]

(* The days of a month, as time.strptime and datetime() check them. *)
DaysIn(year, month) ==
    IF month = 2
    THEN (IF year % 4 = 0 /\ (year % 100 # 0 \/ year % 400 = 0)
          THEN 29 ELSE 28)
    ELSE IF month \in {4, 6, 9, 11} THEN 30 ELSE 31

(* The timestamp of the administrative record: 14 ASCII digits, a year of
   4 and five fields of 2, read with int() and handed to datetime(). *)
TimestampOk(stamp) ==
    /\ Len(stamp) = 14 /\ AllDigits(stamp)
    /\ LET year == DigitsVal(SubSeq(stamp, 1, 4))
           month == DigitsVal(SubSeq(stamp, 5, 6))
           day == DigitsVal(SubSeq(stamp, 7, 8))
       IN /\ year >= 1 /\ month \in 1..12 /\ day \in 1..DaysIn(year, month)
          /\ DigitsVal(SubSeq(stamp, 9, 10)) <= 23
          /\ DigitsVal(SubSeq(stamp, 11, 12)) <= 59
          /\ DigitsVal(SubSeq(stamp, 13, 14)) <= 59

AdminSize == 47

(* Lines 333-353: the descriptor read from the administrative record, with
   the two working values y_zero and y_resolution beside it. *)
AdminDecode(data) ==
    IF ~UnitInRange(data[2]) \/ ~UnitInRange(data[3])
    THEN [kind |-> "IndexError"]
    ELSE IF ~TimestampOk(Slice(data, 33, 47))
    THEN [kind |-> "ValueError"]
    ELSE [kind |-> "ok",
          waveform |->
            [channel |-> "", trace_type |-> "",
             y_unit |-> UnitAt(data[2]), x_unit |-> UnitAt(data[3]),
             y_divisions |-> getUInt(Slice(data, 3, 5)),
             x_divisions |-> getUInt(Slice(data, 5, 7)),
             y_scale |-> getFloat(Slice(data, 7, 10)),
             x_scale |-> getFloat(Slice(data, 10, 13)),
             x_zero |-> getFloat(Slice(data, 18, 21)),
             delta_x |-> getFloat(Slice(data, 24, 27)),
             y_at_0 |-> getFloat(Slice(data, 27, 30)),
             x_at_0 |-> getFloat(Slice(data, 30, 33)),
             timestamp |-> Slice(data, 33, 47),
             samples |-> <<>>, slots |-> 0, averaged |-> FALSE],
          y_zero |-> getFloat(Slice(data, 15, 18)),
          y_resolution |-> getFloat(Slice(data, 21, 24))]

(* A stored sample: a finite reading, or one of the three marks. *)
Finite(v) == [kind |-> "fin", v |-> v]

Mark(kind) == [kind |-> kind, v |-> NoNumber]

(* i[0] != i[1] on two stored samples: NaN differs from everything *)
SampleEq(a, b) ==
    IF a.kind = "nan" \/ b.kind = "nan" THEN FALSE
    ELSE IF a.kind = "fin" /\ b.kind = "fin" THEN a.v = b.v
    ELSE a.kind = b.kind

(* bits 4-6 of the control byte *)
GroupBits(control) == (control \div 16) % 8

(* "trend" in waveform.trace_type *)
HasTrend(traceType) == traceType \in {"trend", "trend power"}

(* Lines 382-392 *)
SamplesPerSample(control, traceType) ==
    IF GroupBits(control) = 4 THEN 2
    ELSE IF GroupBits(control) = 6 THEN 3
    ELSE IF GroupBits(control) = 7
    THEN (IF HasTrend(traceType) THEN 3 ELSE 2)
    ELSE 1

SampleSize(control) == control % 8

Signed(control) == control >= 128

(* getNumber: getInt when the top bit of the control byte is set *)
getNumber(control, data) ==
    IF Signed(control) THEN getInt(data) ELSE getUInt(data)

StoredSample_swap(sample, overload, underload, invalid, yZero, yResolution) ==
    IF sample = overload THEN Mark("-inf")
    ELSE IF sample = underload THEN Mark("inf")
    ELSE IF sample = invalid THEN Mark("nan")
    ELSE Finite(NumAdd(yZero, NumMulInt(yResolution, sample)))

(* Lines 409-416 *)
StoredSample(sample, overload, underload, invalid, yZero, yResolution) ==
    IF sample = overload THEN Mark("inf")
    ELSE IF sample = underload THEN Mark("-inf")
    ELSE IF sample = invalid THEN Mark("nan")
    ELSE Finite(NumAdd(yZero, NumMulInt(yResolution, sample)))

(* Line 419 *)
CursorOk(pointer, size) == pointer = size

(* Lines 378-423: the sample matrix of a block of `size' declared bytes.
   kind "IndexError" is the read of data[0] of an empty block,
   "SizeMismatch" the exit(1) of line 421.  slots is samples.shape[1],
   which an empty matrix has too. *)
SampleDecode(data, size, traceType, yZero, yResolution) ==
    IF Len(data) = 0
    THEN [kind |-> "IndexError", samples |-> <<>>, slots |-> 0]
    ELSE
    LET control == data[1]
        width == SampleSize(control)
        perGroup == SamplesPerSample(control, traceType)
        overload == getNumber(control, Slice(data, 1, 1 + width))
        underload == getNumber(control, Slice(data, 1 + width, 1 + 2 * width))
        invalid ==
            getNumber(control, Slice(data, 1 + 2 * width, 1 + 3 * width))
        counted == 1 + 3 * width
        count == getUInt(Slice(data, counted, counted + 2))
        start == counted + 2
        raw(i, j) ==
            getNumber(control,
                Slice(data, start + (i * perGroup + j) * width,
                      start + (i * perGroup + j) * width + width))
        pointer == start + count * perGroup * width
    IN IF ~CursorOk(pointer, size)
       THEN [kind |-> "SizeMismatch", samples |-> <<>>, slots |-> 0]
       ELSE [kind |-> "ok", slots |-> perGroup,
             samples |->
                [i \in 1..count |->
                    [j \in 1..perGroup |->
                        StoredSample(raw(i - 1, j - 1), overload, underload,
                                     invalid, yZero, yResolution)]]]

(* waveform(port, source) after its command was acknowledged, on the unread
   bytes (lines 318-424).  kind "ok" returns the waveform; every other kind
   ends the program: the exit(1) of a helper, "AdminSizeMismatch" (line
   320), "SeparatorMismatch" (line 360), or an exception that nothing
   catches.  The byte after the sample block is read and, whatever it is,
   accepted (line 372); a read that finds none raises IndexError there. *)
waveform(stream) ==
    LET failed(kind, rest) ==
            [kind |-> kind, waveform |-> <<>>, rest |-> rest]
        h == getHeader(stream, 2)
        d == getData(h.rest, h.size)
        a == AdminDecode(d.data)
        byte == Take(d.rest, 1)
        h2 == getHeader(Drop(d.rest, 1), 4)
        d2 == getData(h2.rest, h2.size)
        terminator == Take(d2.rest, 1)
        rest == Drop(d2.rest, 1)
        s == SampleDecode(d2.data, h2.size, a.waveform.trace_type,
                          a.y_zero, a.y_resolution)
    IN IF h.kind # "ok" THEN failed(h.kind, h.rest)
       ELSE IF h.size # AdminSize THEN failed("AdminSizeMismatch", h.rest)
       ELSE IF d.kind # "ok" THEN failed(d.kind, d.rest)
       ELSE IF a.kind # "ok" THEN failed(a.kind, d.rest)
       ELSE IF ~(Len(byte) = 1 /\ byte[1] = ChComma)
       THEN failed("SeparatorMismatch", Drop(d.rest, 1))
       ELSE IF h2.kind # "ok" THEN failed(h2.kind, h2.rest)
       ELSE IF d2.kind # "ok" THEN failed(d2.kind, d2.rest)
       ELSE IF Len(terminator) # 1 THEN failed("IndexError", rest)
       ELSE IF s.kind # "ok" THEN failed(s.kind, rest)
       ELSE [kind |-> "ok",
             waveform |-> [a.waveform EXCEPT !.samples = s.samples,
                                             !.slots = s.slots],
             rest |-> rest]

----------------------------------------------------------------------------
(* The instrument.  Every reply starts with an acknowledgement; after a
   good one the body the command asks for follows.  A body is framed as the
   instrument announces it: a damaged reply has a wrong byte, stops early,
   or declares a length one short of the payload it carries. *)

GoodAck == <<Ch0, ChCR>>

BadAcks ==
    {<<>>, <<Ch0>>, <<Ch0, ChX>>, <<ChX, ChCR>>}
    \cup {<<Digit(d), ChCR>> : d \in {1, 2, 3, 4, 5, 9}}

Replies(bodies) == BadAcks \cup {GoodAck \o b : b \in bodies}

PayloadBytes == {1, 255}

Payloads == UNION {[1..n -> PayloadBytes] : n \in 0..MaxSeg}

(* The length field that answers QP: a decimal and a comma. *)
LengthFields ==
    {<<Digit(n), ChComma>> : n \in 0..MaxTotal}
    \cup {<<ChComma>>, <<Digit(1), ChSemi>>, <<Digit(1)>>, <<>>,
          <<ChMinus, Digit(1), ChComma>>, <<ChMinus, ChComma>>,
          <<Digit(1), ChDot, Digit(5), ChComma>>,
          <<Digit(1), ChDot, Digit(0), ChComma>>}

(* A segment as it reaches the port: preamble, class byte, 2-byte length,
   payload, checksum byte, terminator.  declared is the value the length
   field carries on arrival. *)
Segment(pre, class, payload, ckdelta, term) ==
    [pre |-> pre, class |-> class, declared |-> Len(payload),
     payload |-> payload,
     check |-> (ByteSum(payload) + ckdelta) % 256, term |-> term]

SegmentBytes(seg) ==
    seg.pre \o <<seg.class>> \o UIntBytes(seg.declared, 2)
    \o seg.payload \o <<seg.check, seg.term>>

(* A segment whose length field was damaged on the line and arrives one
   lower than the payload that follows it. *)
ShortDeclared(seg) == [seg EXCEPT !.declared = Len(seg.payload) - 1]

GoodSegments ==
    {Segment(Preamble, c, p, 0, ChCR) : c \in {0, FinalBit}, p \in Payloads}

DamagedSegments ==
    {Segment(Preamble, 0, p, 1, t) : p \in Payloads, t \in {ChCR, ChX}}
    \cup {Segment(Preamble, c, <<1>>, 0, ChX) : c \in {0, FinalBit}}
    \cup {Segment(<<ChHash, ChX>>, 0, <<1>>, 0, ChCR)}
    \cup {ShortDeclared(Segment(Preamble, c, <<1>>, 0, ChCR)) :
            c \in {0, FinalBit}}

(* cut: how many bytes of the segment arrive before the instrument stops *)
SegmentReplies ==
    {[seg |-> g, cut |-> Len(SegmentBytes(g))] :
        g \in GoodSegments \cup DamagedSegments}
    \cup {[seg |-> Segment(Preamble, 0, <<1>>, 0, ChCR), cut |-> k] :
        k \in 0..7}

----------------------------------------------------------------------------
(* The program. *)

(* sendCommand(port, command, timeout) answered by `reply': the bytes read
   as the acknowledgement, the outcome, and what is left unread. *)
sendCommand(reply, timeout) ==
    LET inbuf == rx \o reply
    IN [ack |-> Take(inbuf, 2),
        outcome |-> AckOutcome(Take(inbuf, 2), timeout),
        rest |-> Drop(inbuf, 2)]

(* The record of one command written: the rate it was written at, the mode,
   how many bytes of earlier replies were still unread at the write, and
   the acknowledgement that came back. *)
Written(command, timeout, reply) ==
    [cmd |-> command, baud |-> baud, timeout |-> timeout,
     unread |-> Len(rx), ack |-> sendCommand(reply, timeout).ack,
     outcome |-> sendCommand(reply, timeout).outcome]

Exit(reason) == pc' = "exit" /\ err' = reason

(* execute: the operations in program order, each behind its option. *)
OpStart(k) ==
    CASE k = 1 -> "identify"
      [] k = 2 -> "datetime_wt"
      [] k = 3 -> "shot_qp"
      [] OTHER -> "done"

OpSelected(k) ==
    CASE k = 1 -> args.identify
      [] k = 2 -> args.datetime
      [] k = 3 -> args.screenshot
      [] OTHER -> FALSE

LastOp == 3

RECURSIVE OpAfter(_)
OpAfter(k) ==
    IF k >= LastOp THEN "done"
    ELSE IF OpSelected(k + 1) THEN OpStart(k + 1) ELSE OpAfter(k + 1)

Options ==
    [identify : BOOLEAN, datetime : BOOLEAN, screenshot : BOOLEAN]

ShotIdle ==
    /\ dataLength = NoNumber /\ image = <<>> /\ status = 0 /\ retries = 0
    /\ total = NoNumber /\ rounds = <<>>

WaveIdle == waveform_type = -1 /\ waveforms = <<>> /\ traces = <<>>

(* class measurement_t, lines 596-601; its attribute `unit' does not exist
   before measurement() assigns it. *)
measurement_t ==
    [source |-> "", unit |-> "", value |-> Num(0, 0, "float"), name |-> "",
     precision |-> Num(0, 0, "float")]

MeasIdle ==
    /\ measurement_type = -1 /\ measurement_number = 0 /\ readings = <<>>
    /\ measurement = measurement_t /\ first = measurement_t
    /\ metadata = <<>>
    /\ measurements = <<>> /\ names = <<>> /\ values = <<>>

ShotReset ==
    /\ dataLength' = NoNumber /\ image' = <<>> /\ status' = 0
    /\ retries' = 0 /\ total' = NoNumber /\ rounds' = <<>>

Init ==
    /\ pc = "init_probe" /\ err = ""
    /\ args \in Options
    /\ baud = InitialBaud
    /\ rx = <<>> /\ sent = <<>>
    /\ ShotIdle /\ WaveIdle /\ MeasIdle
    /\ inp = <<>> /\ ret = <<>>

(* initializePort, lines 91-93: the probe in tolerant mode, then the
   client's own rate. *)
NeedsConfirm_always(outcome) == TRUE

NeedsConfirm(outcome) == outcome = "NoAck"

InitProbe ==
    /\ pc = "init_probe"
    /\ \E reply \in Replies({<<>>}) :
        LET r == sendCommand(reply, FALSE) IN
        /\ sent' = <<Written("PC 19200", FALSE, reply)>>
        /\ rx' = r.rest
        /\ IF Returns(r.outcome)
           THEN /\ baud' = FastBaud
                /\ pc' = IF NeedsConfirm(r.outcome)
                         THEN "init_confirm" ELSE "execute"
                /\ err' = err
           ELSE Exit(r.outcome) /\ baud' = baud
    /\ UNCHANGED <<args, shotVars, inp, ret, waveVars, measVars>>

(* initializePort, line 94 *)
InitConfirm ==
    /\ pc = "init_confirm"
    /\ \E reply \in Replies({<<>>}) :
        LET r == sendCommand(reply, TRUE) IN
        /\ sent' = Append(sent, Written("PC 19200", TRUE, reply))
        /\ rx' = r.rest
        /\ IF Returns(r.outcome)
           THEN pc' = "execute" /\ err' = err
           ELSE Exit(r.outcome)
    /\ UNCHANGED <<args, baud, shotVars, inp, ret, waveVars, measVars>>

Execute ==
    /\ pc = "execute"
    /\ pc' = OpAfter(0)
    /\ UNCHANGED <<err, args, baud, rx, sent, shotVars, inp, ret, waveVars, measVars>>

----------------------------------------------------------------------------
(* identify *)

(* The position of the first CR of the stream (0 when there is none). *)
FirstCR(s) ==
    IF \E i \in 1..Len(s) : s[i] = ChCR
    THEN CHOOSE i \in 1..Len(s) :
            s[i] = ChCR /\ \A j \in 1..(i - 1) : s[j] # ChCR
    ELSE 0

(* bytes.split(b';') *)
RECURSIVE Split(_, _)
Split(s, sepByte) ==
    IF \E i \in 1..Len(s) : s[i] = sepByte
    THEN LET i == CHOOSE k \in 1..Len(s) :
                    s[k] = sepByte /\ \A j \in 1..(k - 1) : s[j] # sepByte
         IN <<SubSeq(s, 1, i - 1)>> \o Split(SubSeq(s, i + 1, Len(s)), sepByte)
    ELSE <<s>>

(* time.strptime(field, "%Y-%m-%d") succeeds *)
IsDate(field) ==
    LET parts == Split(field, ChMinus) IN
    /\ Len(parts) = 3
    /\ Len(parts[1]) = 4 /\ AllDigits(parts[1])
    /\ Len(parts[2]) \in {1, 2} /\ AllDigits(parts[2])
    /\ Len(parts[3]) \in {1, 2} /\ AllDigits(parts[3])
    /\ DigitsVal(parts[2]) \in 1..12
    /\ DigitsVal(parts[3]) \in
            1..DaysIn(DigitsVal(parts[1]), DigitsVal(parts[2]))

(* What identify makes of the bytes after the acknowledgement. *)
IdentifyResult(stream) ==
    LET cr == FirstCR(stream)
        identity == Split(SubSeq(stream, 1, cr - 1), ChSemi)
    IN IF cr = 0 THEN [kind |-> "Timeout", rest |-> <<>>]
       ELSE IF Len(identity) # 4
       THEN [kind |-> "IdentityError", rest |-> Drop(stream, cr)]
       ELSE IF ~IsDate(identity[3])
       THEN [kind |-> "ValueError", rest |-> Drop(stream, cr)]
       ELSE [kind |-> "ok", rest |-> Drop(stream, cr)]

GoodDate == <<50, 48, 48, 48, 45, 48, 50, 45, 50, 57>>

BadDate == <<50, 48, 48, 49, 45, 48, 50, 45, 50, 57>>

RECURSIVE Join(_)
Join(fields) ==
    IF Len(fields) = 1 THEN fields[1]
    ELSE fields[1] \o <<ChSemi>> \o Join(Tail(fields))

IdentityBodies ==
    {Join(<<<<ChX>>, <<ChX>>, d, <<ChX>>>>) \o <<ChCR>> :
        d \in {GoodDate, BadDate}}
    \cup {Join(<<<<ChX>>, <<ChX>>, GoodDate>>) \o <<ChCR>>,
          Join(<<<<ChX>>, <<ChX>>, GoodDate, <<ChX>>, <<ChX>>>>) \o <<ChCR>>}
    \cup Prefixes(Join(<<<<ChX>>, <<ChX>>, GoodDate, <<ChX>>>>))

Identify ==
    /\ pc = "identify"
    /\ \E reply \in Replies(IdentityBodies) :
        LET r == sendCommand(reply, TRUE)
            id == IdentifyResult(r.rest)
        IN /\ sent' = <<Written("ID", TRUE, reply)>>
           /\ IF ~Returns(r.outcome)
              THEN rx' = r.rest /\ Exit(r.outcome)
              ELSE /\ rx' = id.rest
                   /\ IF id.kind = "ok"
                      THEN pc' = OpAfter(1) /\ err' = err
                      ELSE Exit(id.kind)
    /\ UNCHANGED <<args, baud, shotVars, inp, ret, waveVars, measVars>>

----------------------------------------------------------------------------
(* dateTime *)

SetTime ==
    /\ pc = "datetime_wt"
    /\ \E reply \in Replies({<<>>}) :
        LET r == sendCommand(reply, TRUE) IN
        /\ sent' = <<Written("WT", TRUE, reply)>>
        /\ rx' = r.rest
        /\ IF Returns(r.outcome)
           THEN pc' = "datetime_wd" /\ err' = err
           ELSE Exit(r.outcome)
    /\ UNCHANGED <<args, baud, shotVars, inp, ret, waveVars, measVars>>

SetDate ==
    /\ pc = "datetime_wd"
    /\ \E reply \in Replies({<<>>}) :
        LET r == sendCommand(reply, TRUE) IN
        /\ sent' = Append(sent, Written("WD", TRUE, reply))
        /\ rx' = r.rest
        /\ IF Returns(r.outcome)
           THEN pc' = OpAfter(2) /\ err' = err
           ELSE Exit(r.outcome)
    /\ UNCHANGED <<args, baud, shotVars, inp, ret, waveVars, measVars>>

----------------------------------------------------------------------------
(* screenshot *)

(* "{:d}".format(status) *)
StatusCommand(st) == IF st = 0 THEN "0" ELSE "1"

(* (header & 0x80) != 0 *)
FinalSet(header) == (header \div FinalBit) % 2 = 1

SegmentReadSize(size) == size + 2

SegmentPayload(data) == SubSeq(data, 1, Len(data) - 2)

SegmentChecksumOk(data) ==
    checksum(SegmentPayload(data), data[Len(data) - 1])

SegmentTerminated(data) == data[Len(data)] = ChCR

RetriesExhausted(r) == r >= RetryLimit

StatusAfterFailure == 1

RetriesAfterSuccess_kept == retries

RetriesAfterSuccess == 0

TransferEnding(len, header) == NumIsZero(len) \/ FinalSet(header)

TransferComplete_lengthOnly(len, header) == NumIsZero(len)

TransferComplete(len, header) == NumIsZero(len) /\ FinalSet(header)

Accumulate_replace(buf, data) == SegmentPayload(data)

(* image += data[:-2] *)
Accumulate(buf, data) == buf \o SegmentPayload(data)

(* Lines 217-224: the query, the announced length, the loop's variables. *)
ShotCommand ==
    /\ pc = "shot_qp"
    /\ \E reply \in Replies(LengthFields) :
        LET r == sendCommand(reply, TRUE)
            d == getDecimal(r.rest, ChComma)
        IN /\ sent' = <<Written("QP 0,12,B", TRUE, reply)>>
           /\ IF ~Returns(r.outcome)
              THEN rx' = r.rest /\ Exit(r.outcome) /\ UNCHANGED shotVars
              ELSE /\ rx' = Drop(r.rest, d.used)
                   /\ IF d.kind \in {"Number", "None"}
                      THEN /\ pc' = "shot_round" /\ err' = err
                           /\ dataLength' = d.number /\ total' = d.number
                           /\ image' = <<>> /\ status' = 0 /\ retries' = 0
                           /\ rounds' = <<>>
                      ELSE Exit(d.kind) /\ UNCHANGED shotVars
    /\ UNCHANGED <<args, baud, inp, ret, waveVars, measVars>>

(* What one pass of the loop (lines 227-260) makes of the bytes `inbuf'
   that follow the acknowledgement.  result is "ok" for a segment that
   passed both checks, "ckfail" for one that failed its checksum, "" when
   the program ends before either is known. *)
Round(inbuf) ==
    LET h == getHeader(inbuf, 2)
        size == SegmentReadSize(h.size)
        data == Take(h.rest, size)
        rest == Drop(h.rest, size)
        same == [pc |-> "exit", err |-> "", rx |-> rest,
                 dataLength |-> dataLength, image |-> image,
                 status |-> status, retries |-> retries, result |-> ""]
    IN IF h.kind # "ok"
       THEN [same EXCEPT !.err = h.kind, !.rx = h.rest]
       ELSE IF Len(data) # size
       THEN [same EXCEPT !.err = "Timeout"]
       ELSE IF ~SegmentChecksumOk(data)
       THEN IF RetriesExhausted(retries + 1)
            THEN [same EXCEPT !.err = "ChecksumFailure",
                              !.retries = retries + 1,
                              !.result = "ckfail"]
            ELSE [same EXCEPT !.pc = "shot_round",
                              !.retries = retries + 1,
                              !.status = StatusAfterFailure,
                              !.result = "ckfail"]
       ELSE IF ~SegmentTerminated(data)
       THEN [same EXCEPT !.err = "MalformedSegment"]
       ELSE IF dataLength.kind = "None"
       THEN [same EXCEPT !.err = "TypeError",
                         !.retries = RetriesAfterSuccess,
                         !.image = Accumulate(image, data),
                         !.result = "ok"]
       ELSE LET remaining == NumSubInt(dataLength, Len(data) - 2)
                next == [same EXCEPT !.retries = RetriesAfterSuccess,
                              !.image = Accumulate(image, data),
                              !.dataLength = remaining,
                              !.result = "ok"]
            IN IF TransferEnding(remaining, h.header)
               THEN IF TransferComplete(remaining, h.header)
                    THEN [next EXCEPT !.pc = "shot_write"]
                    ELSE [next EXCEPT !.err = "ProtocolInvariantViolation"]
               ELSE [next EXCEPT !.pc = "shot_round"]

RoundReplies ==
    {[ack |-> a, seg |-> Segment(Preamble, 0, <<>>, 0, ChCR), cut |-> 0] :
        a \in BadAcks}
    \cup {[ack |-> GoodAck, seg |-> r.seg, cut |-> r.cut] :
        r \in SegmentReplies}

ShotRound ==
    /\ pc = "shot_round"
    /\ Len(rounds) < MaxRounds
    /\ \E d \in RoundReplies :
        LET reply == d.ack \o SubSeq(SegmentBytes(d.seg), 1, d.cut)
            r == sendCommand(reply, TRUE)
            n == Round(r.rest)
        IN /\ sent' = Append(sent, Written(StatusCommand(status), TRUE, reply))
           /\ IF ~Returns(r.outcome)
              THEN /\ rx' = r.rest /\ Exit(r.outcome)
                   /\ UNCHANGED shotVars
              ELSE /\ rx' = n.rx /\ pc' = n.pc /\ err' = n.err
                   /\ dataLength' = n.dataLength /\ image' = n.image
                   /\ status' = n.status /\ retries' = n.retries
                   /\ total' = total
                   /\ rounds' =
                        IF n.result = "" THEN rounds
                        ELSE Append(rounds,
                                [status |-> status, result |-> n.result,
                                 final |-> d.seg.class = FinalBit,
                                 payload |-> IF n.result = "ok"
                                             THEN d.seg.payload ELSE <<>>])
    /\ UNCHANGED <<args, baud, inp, ret, waveVars, measVars>>

(* Lines 261-268: the image is written out and screenshot returns. *)
ShotWrite ==
    /\ pc = "shot_write"
    /\ pc' = OpAfter(3)
    /\ ShotReset
    /\ UNCHANGED <<err, args, baud, rx, sent, inp, ret, waveVars, measVars>>

----------------------------------------------------------------------------
(* waveforms: the menu, the acquisitions, and what is derived from them. *)

QuitChoice == 9

(* while waveform_type<0 or waveform_type>9 *)
MenuAgain(choice) == choice < 0 \/ choice > QuitChoice

WaveformCount(choice) == IF choice > 3 THEN 2 ELSE 1

(* Lines 448-463 *)
TraceType(choice) ==
    IF choice % 4 < 2
    THEN (IF choice = 8 THEN "power"
          ELSE IF choice % 4 = 1 THEN "psd" ELSE "trace")
    ELSE IF choice % 4 = 2 THEN "envelope" ELSE "trend"

(* "QW " + source, source being the channel digit and the kind digit *)
QueryCommand(number, choice) ==
    IF choice % 4 < 2 THEN (IF number = 0 THEN "QW 10" ELSE "QW 20")
    ELSE IF choice % 4 = 2 THEN (IF number = 0 THEN "QW 12" ELSE "QW 22")
    ELSE (IF number = 0 THEN "QW 11" ELSE "QW 21")

Channel(number) == IF number = 0 THEN "A" ELSE "B"

(* Lines 473-477: every group has equal slots *)
Matching(samples) ==
    \A i \in 1..Len(samples) : SampleEq(samples[i][1], samples[i][2])

(* numpy.resize(samples, (rows, 1)): the first `rows' values of the matrix
   read row by row, one to a group *)
Resize(samples, rows) ==
    [i \in 1..rows |->
        <<samples[((i - 1) \div 2) + 1][((i - 1) % 2) + 1]>>]

(* Lines 469-489: the waveform as it is appended to the list *)
Acquired(data, number, choice) ==
    LET named == [data EXCEPT !.channel = Channel(number)]
    IN IF choice % 4 < 2
       THEN IF data.slots = 2
            THEN IF Matching(data.samples)
                 THEN [named EXCEPT
                         !.samples = Resize(data.samples, Len(data.samples)),
                         !.slots = 1, !.trace_type = "average"]
                 ELSE [named EXCEPT !.trace_type = "glitch"]
            ELSE [named EXCEPT !.trace_type = "trace"]
       ELSE [named EXCEPT !.trace_type = TraceType(choice)]

IsPower(choice) == choice = 5 \/ choice = 8

IsPsd(choice) == choice % 4 = 1

AfterAcquire(choice) ==
    IF IsPower(choice) THEN "wave_power"
    ELSE IF IsPsd(choice) THEN "wave_psd" ELSE "wave_write"

(* Line 494: the comparison of two waveforms' timestamps *)
TimestampsDiffer(a, b) == a.timestamp # b.timestamp

SampleSign(x) ==
    IF x.kind = "inf" THEN 1
    ELSE IF x.kind = "-inf" THEN -1
    ELSE IF x.v.m > 0 THEN 1 ELSE IF x.v.m < 0 THEN -1 ELSE 0

(* the product of two stored samples, as floating point gives it *)
SampleMul(a, b) ==
    IF a.kind = "nan" \/ b.kind = "nan" THEN Mark("nan")
    ELSE IF a.kind = "fin" /\ b.kind = "fin" THEN Finite(NumMul(a.v, b.v))
    ELSE IF SampleSign(a) * SampleSign(b) = 0 THEN Mark("nan")
    ELSE IF SampleSign(a) * SampleSign(b) > 0 THEN Mark("inf")
    ELSE Mark("-inf")

(* Lines 507-527: the combined waveform *)
PowerWaveform(a, b) ==
    [channel |-> "both",
     trace_type |-> IF a.trace_type # "trace"
                    THEN (IF a.trace_type = "average" THEN "average power"
                          ELSE "glitch power")
                    ELSE "power",
     y_unit |-> "W", x_unit |-> a.x_unit,
     y_divisions |-> a.y_divisions, x_divisions |-> a.x_divisions,
     y_scale |-> NumMul(a.y_scale, a.y_scale),
     x_scale |-> a.x_scale, x_zero |-> a.x_zero,
     delta_x |-> a.delta_x,
     y_at_0 |-> NumMul(a.y_at_0, b.y_at_0),
     x_at_0 |-> a.x_at_0,
     timestamp |-> a.timestamp,
     samples |-> [i \in 1..Len(a.samples) |->
                    <<SampleMul(a.samples[i][1], b.samples[i][1])>>],
     slots |-> a.slots, averaged |-> a.averaged]

(* Lines 493-529.  kind "ok" carries the combined waveform; the four named
   kinds are the exit(1) of the four checks, in the order the code makes
   them; "IndexError" is the read of a row the second matrix lacks. *)
Power(list) ==
    LET a == list[1]
        b == list[2]
        failed(kind) == [kind |-> kind, waveform |-> <<>>]
    IN IF TimestampsDiffer(a, a) THEN failed("PowerTimestampMismatch")
       ELSE IF a.y_unit # "V" \/ b.y_unit # "A"
       THEN failed("PowerUnitMismatch")
       ELSE IF a.trace_type # b.trace_type THEN failed("PowerKindMismatch")
       ELSE IF a.slots # 1 \/ b.slots # 1 THEN failed("PowerGlitch")
       ELSE IF Len(b.samples) < Len(a.samples) THEN failed("IndexError")
       ELSE [kind |-> "ok", waveform |-> PowerWaveform(a, b)]

(* Lines 532-568: the spectral estimate replaces the list.  The estimate
   itself (scipy.signal.welch) is outside the model: its samples are left
   empty, and an input without samples is taken to raise IndexError. *)
PsdWaveform(a) ==
    [channel |-> IF a.y_unit = "W" THEN "both" ELSE "A",
     trace_type |-> "psd",
     y_unit |-> IF a.y_unit = "W" THEN "W/Hz" ELSE "V2/Hz",
     x_unit |-> "Hz",
     y_divisions |-> 0, x_divisions |-> 0,
     y_scale |-> NoNumber, x_scale |-> NoNumber, x_zero |-> NoNumber,
     delta_x |-> NoNumber, y_at_0 |-> NoNumber, x_at_0 |-> NoNumber,
     timestamp |-> a.timestamp,
     samples |-> <<>>, slots |-> 1, averaged |-> FALSE]

(* Lines 570-575: the file name is built from both unit symbols *)
Nameable(data) == data.x_unit # "None" /\ data.y_unit # "None"

----------------------------------------------------------------------------

Next ==
    \/ InitProbe
    \/ InitConfirm
    \/ Execute
    \/ Identify
    \/ SetTime
    \/ SetDate
    \/ ShotCommand
    \/ ShotRound
    \/ ShotWrite

Spec == Init /\ [][Next]_vars

----------------------------------------------------------------------------
(* Properties of the segmented transfer. *)

Last(s) == s[Len(s)]

RECURSIVE Accepted(_)
Accepted(log) ==
    IF log = <<>> THEN <<>>
    ELSE Accepted(SubSeq(log, 1, Len(log) - 1))
         \o (IF Last(log).result = "ok" THEN Last(log).payload ELSE <<>>)

RECURSIVE TrailingFailures(_)
TrailingFailures(log) ==
    IF log = <<>> THEN 0
    ELSE IF Last(log).result # "ckfail" THEN 0
    ELSE 1 + TrailingFailures(SubSeq(log, 1, Len(log) - 1))

(* The length still expected, from what was announced and what the
   instrument sent in the rounds that were accepted. *)
Remaining(log) == NumSubInt(total, Len(Accepted(log)))

Announced == total.kind # "None"

RoundLogged == pc = "shot_round" /\ Len(rounds') = Len(rounds) + 1

(* C1: after a round whose segment passed the checksum and terminator
   checks, the transfer ends successfully if and only if the remaining
   length is 0 and the final-segment bit was set in that round; it ends
   fatally if exactly one of the two holds; another round is started if
   neither holds.  (The length is one that was announced.) *)
C1_Step ==
    (RoundLogged /\ Announced /\ Last(rounds').result = "ok") =>
        LET zero == NumIsZero(Remaining(rounds'))
            final == Last(rounds').final
        IN /\ (pc' = "shot_write") <=> (zero /\ final)
           /\ (zero # final) =>
                (pc' = "exit" /\ err' = "ProtocolInvariantViolation")
           /\ (~zero /\ ~final) => pc' = "shot_round"

C1_TerminationRule == [][C1_Step]_vars

C1_Witness ==
    /\ pc = "shot_write" /\ Len(rounds) >= 3
    /\ \E i \in 1..Len(rounds) : rounds[i].result = "ckfail"

(* C2: a checksum failure makes the next round ask for the same segment
   again (status 1, nothing accepted); the transfer dies of checksum
   failures exactly when 3 rounds in a row failed; a segment that is
   accepted sets the counter back to 0; once the program has ended no
   command is written and no byte is read. *)
C2_State ==
    /\ retries = TrailingFailures(rounds)
    /\ TrailingFailures(rounds) <= 3
    /\ (pc = "exit" /\ err = "ChecksumFailure")
            <=> TrailingFailures(rounds) = 3
    /\ (pc = "shot_round" /\ rounds # <<>> /\ Last(rounds).result = "ckfail")
            => status = 1

C2_Step ==
    /\ (RoundLogged /\ Last(rounds').result = "ckfail")
            => (image' = image /\ dataLength' = dataLength)
    /\ (pc = "shot_round" /\ rounds # <<>> /\ Last(rounds).result = "ckfail"
        /\ sent' # sent) => Last(sent').cmd = "1"
    /\ pc = "exit" => (sent' = sent /\ rx' = rx)

C2_Retry == []C2_State /\ [][C2_Step]_vars

C2_Witness ==
    /\ pc = "shot_write" /\ Len(rounds) = 3
    /\ rounds[1].result = "ckfail" /\ rounds[2].result = "ckfail"
    /\ rounds[3].result = "ok"

(* C3 as claimed: the first status command carries 0, and a status command
   carries 1 only when the round before it failed its checksum. *)
C3_StatusOnlyAfterFailure ==
    (pc \in {"shot_round", "shot_write", "exit"}
        /\ sent # <<>> /\ sent[1].cmd = "QP 0,12,B") =>
        \A i \in 2..Len(sent) :
            /\ i = 2 => sent[i].cmd = "0"
            /\ (sent[i].cmd = "1") =>
                    /\ i - 2 \in 1..Len(rounds)
                    /\ rounds[i - 2].result = "ckfail"

(* C4: the buffer is the payloads of the accepted rounds, in order; the
   remaining length and the buffer length add up to the announced length;
   a round that fails its checksum changes neither. *)
C4_State ==
    /\ image = Accepted(rounds)
    /\ (Announced /\ ~(pc = "exit" /\ err = "TypeError")) =>
            NumSubInt(total, Len(image)) = dataLength

C4_Step ==
    (RoundLogged /\ Last(rounds').result = "ckfail")
        => (image' = image /\ dataLength' = dataLength)

C4_Buffer == []C4_State /\ [][C4_Step]_vars

C4_Witness ==
    /\ pc = "shot_round" /\ Len(rounds) = 3
    /\ rounds[1].result = "ok" /\ rounds[2].result = "ckfail"
    /\ rounds[3].result = "ok"
    /\ image = <<1, 255>>

----------------------------------------------------------------------------
(* Properties of the command handshake and of the initialization. *)

AckFatal(w) == w.outcome \notin {"Success", "NoAck"}

(* C5: a command is acknowledged as Success exactly when the two bytes read
   are '0' and CR; a first byte '1', '2', '3', '4' before the CR is the
   syntax, execution, synchronization and communication error, any other
   digit an unknown code; every outcome but Success (and the tolerant
   mode's no-ack) ends the program, and no command is written after it. *)
C5_State ==
    \A i \in 1..Len(sent) :
        LET w == sent[i] IN
        /\ (w.outcome = "Success") <=> (w.ack = <<48, 13>>)
        /\ w.ack = <<49, 13>> => w.outcome = "SyntaxError"
        /\ w.ack = <<50, 13>> => w.outcome = "ExecutionError"
        /\ w.ack = <<51, 13>> => w.outcome = "SyncError"
        /\ w.ack = <<52, 13>> => w.outcome = "CommError"
        /\ (Len(w.ack) = 2 /\ w.ack[2] = 13 /\ w.ack[1] \in 53..57)
                => w.outcome = "UnknownCode"
        /\ (w.timeout /\ i < Len(sent)) => w.outcome = "Success"
        /\ AckFatal(w) => (i = Len(sent) /\ pc = "exit" /\ err = w.outcome)

C5_Step == pc = "exit" => sent' = sent

C5_AckCodes == []C5_State /\ [][C5_Step]_vars

C5_Witness ==
    /\ pc = "exit" /\ err = "CommError"
    /\ Len(sent) = 2 /\ sent[1].cmd = "QP 0,12,B"
    /\ sent[1].outcome = "Success" /\ sent[2].ack = <<52, 13>>

(* C6: fewer than 2 acknowledgement bytes: the tolerant mode returns the
   no-ack value and the program goes on, the other mode ends with Timeout;
   2 bytes of which the second is not CR end the program with MalformedAck
   in both modes. *)
C6_NoAck ==
    \A i \in 1..Len(sent) :
        LET w == sent[i] IN
        /\ (Len(w.ack) < 2 /\ ~w.timeout) =>
                /\ w.outcome = "NoAck"
                /\ i = Len(sent) => (pc = "init_confirm" /\ err = "")
        /\ (Len(w.ack) < 2 /\ w.timeout) =>
                /\ w.outcome = "Timeout"
                /\ i = Len(sent) /\ pc = "exit" /\ err = "Timeout"
        /\ (Len(w.ack) = 2 /\ w.ack[2] # 13) =>
                /\ w.outcome = "MalformedAck"
                /\ i = Len(sent) /\ pc = "exit" /\ err = "MalformedAck"

C6_Witness ==
    /\ pc = "exit" /\ err = "Timeout" /\ Len(sent) = 2
    /\ ~sent[1].timeout /\ sent[1].ack = <<48>> /\ sent[1].outcome = "NoAck"
    /\ sent[2].timeout /\ sent[2].ack = <<48>>

Probe(w) ==
    w.cmd = "PC 19200" /\ w.baud = 1200 /\ ~w.timeout /\ w.unread = 0

Confirm(w) ==
    w.cmd = "PC 19200" /\ w.baud = 19200 /\ w.timeout /\ w.unread = 0

(* C7 as claimed: an initialization that completes has sent PC 19200
   twice, the tolerant probe at 1200 baud and the confirmed send at 19200
   baud, and leaves the rate at 19200. *)
C7_SentTwice ==
    pc = "execute" =>
        /\ Len(sent) = 2 /\ Probe(sent[1]) /\ Confirm(sent[2])
        /\ baud = 19200

(* C7 amended: an initialization that completes has sent the tolerant
   probe at 1200 baud; the confirmed send at 19200 baud follows exactly
   when the probe was not acknowledged in time, and a probe acknowledged
   with success is the only command sent; the rate is left at 19200. *)
C7_ConfirmOnlyAfterNoAck ==
    pc = "execute" =>
        /\ Len(sent) \in {1, 2} /\ Probe(sent[1])
        /\ baud = 19200
        /\ (Len(sent) = 2) <=> (Len(sent[1].ack) < 2)
        /\ Len(sent) = 1 => sent[1].ack = <<48, 13>>
        /\ Len(sent) = 2 => (Confirm(sent[2]) /\ sent[2].ack = <<48, 13>>)

C7_Witness ==
    pc = "execute" /\ Len(sent) = 1 /\ sent[1].ack = <<48, 13>>

(* C8: no command is written to the link while bytes of the reply to an
   earlier command are still unread: every command the current operation
   has written was written with an empty receive buffer. *)
C8_NoUnreadAtWrite ==
    \A i \in 1..Len(sent) : sent[i].unread = 0

----------------------------------------------------------------------------
(* The block framing layer on its own: getHeader, then getData with the
   size the header declared, on a stream drawn from BlockStreams. *)

BlockBytes(pre, class, intSize, declared, payload, ckdelta) ==
    pre \o <<class>> \o UIntBytes(declared, intSize) \o payload
    \o <<(ByteSum(payload) + ckdelta) % 256>>

BlockStreams ==
    UNION {Prefixes(BlockBytes(pre, class, n, Len(p), p, d)) :
        pre \in {Preamble, <<ChHash, ChX>>, <<ChX, Ch0>>},
        class \in {0, FinalBit}, n \in {2, 4}, p \in Payloads,
        d \in {0, 1}}
    \cup {BlockBytes(Preamble, 0, n, 258, <<1, 255>>, 0) : n \in {2, 4}}

InitBlock ==
    /\ pc = "block_header" /\ err = ""
    /\ args = [identify |-> FALSE, datetime |-> FALSE, screenshot |-> FALSE]
    /\ baud = FastBaud
    /\ \E stream \in BlockStreams, n \in {2, 4} :
        rx = stream /\ inp = [stream |-> stream, intSize |-> n]
    /\ sent = <<>> /\ ShotIdle /\ WaveIdle /\ MeasIdle
    /\ ret = <<>>

BlockHeader ==
    /\ pc = "block_header"
    /\ LET h == getHeader(rx, inp.intSize) IN
        /\ rx' = h.rest
        /\ IF h.kind = "ok"
           THEN /\ pc' = "block_data" /\ err' = err
                /\ ret' = [header |-> h.header, size |-> h.size]
           ELSE Exit(h.kind) /\ ret' = ret
    /\ UNCHANGED <<args, baud, sent, shotVars, inp, waveVars, measVars>>

BlockData ==
    /\ pc = "block_data"
    /\ LET d == getData(rx, ret.size) IN
        /\ rx' = d.rest
        /\ IF d.kind = "ok"
           THEN /\ pc' = "block_done" /\ err' = err
                /\ ret' = [header |-> ret.header, size |-> ret.size,
                           data |-> d.data]
           ELSE Exit(d.kind) /\ ret' = ret
    /\ UNCHANGED <<args, baud, sent, shotVars, inp, waveVars, measVars>>

NextBlock == BlockHeader \/ BlockData

SpecBlock == InitBlock /\ [][NextBlock]_vars

RECURSIVE PlainSum(_)
PlainSum(s) == IF s = <<>> THEN 0 ELSE s[1] + PlainSum(Tail(s))

RECURSIVE BigEndian(_, _)
BigEndian(s, acc) ==
    IF s = <<>> THEN acc ELSE BigEndian(Tail(s), acc * 256 + s[1])

(* C9: a payload is handed to the caller only if the 3 + width header bytes
   began with "#0" and the byte after the declared number of payload bytes
   is their sum mod 256, and it is exactly those payload bytes; a wrong
   preamble, a wrong checksum and a short read end the program with
   PreambleMismatch, ChecksumFailure and Timeout. *)
C9_Framing ==
    LET s == inp.stream
        n == 3 + inp.intSize
        declared == BigEndian(SubSeq(s, 4, n), 0)
        headerRead == Len(s) >= n
        preambleOk == headerRead /\ s[1] = 35 /\ s[2] = 48
        blockRead == preambleOk /\ Len(s) >= n + declared + 1
        sumOk == blockRead
                 /\ s[n + declared + 1]
                        = PlainSum(SubSeq(s, n + 1, n + declared)) % 256
    IN /\ pc = "block_done" =>
            /\ preambleOk /\ sumOk
            /\ ret.size = declared
            /\ ret.data = SubSeq(s, n + 1, n + declared)
            /\ Len(ret.data) = declared
       /\ pc = "block_data" => (preambleOk /\ ret.size = declared)
       /\ pc = "exit" =>
            /\ err = "PreambleMismatch" <=> (headerRead /\ ~preambleOk)
            /\ err = "ChecksumFailure" <=> (blockRead /\ ~sumOk)
            /\ err = "Timeout" <=> (~headerRead \/ (preambleOk /\ ~blockRead))

C9_Witness ==
    /\ pc = "block_done" /\ inp.intSize = 4
    /\ ret.data = <<255>> /\ ret.header = 128

----------------------------------------------------------------------------
(* getDecimal on its own, on a stream drawn from DecimalStreams. *)

DecimalBytes == {Digit(1), Digit(2), ChDot, ChMinus, ChComma, ChA}

DecimalStreams == UNION {[1..n -> DecimalBytes] : n \in 0..MaxField}

InitDecimal ==
    /\ pc = "decimal" /\ err = ""
    /\ args = [identify |-> FALSE, datetime |-> FALSE, screenshot |-> FALSE]
    /\ baud = FastBaud
    /\ \E stream \in DecimalStreams, sep \in {NoByte, ChComma} :
        rx = stream /\ inp = [stream |-> stream, sep |-> sep]
    /\ sent = <<>> /\ ShotIdle /\ WaveIdle /\ MeasIdle
    /\ ret = <<>>

Decimal ==
    /\ pc = "decimal"
    /\ LET d == getDecimal(rx, inp.sep) IN
        /\ rx' = Drop(rx, d.used)
        /\ ret' = d
        /\ IF d.kind \in {"None", "Number", "Pair"}
           THEN pc' = "decimal_done" /\ err' = err
           ELSE Exit(d.kind)
    /\ UNCHANGED <<args, baud, sent, shotVars, inp, waveVars, measVars>>

NextDecimal == Decimal

SpecDecimal == InitDecimal /\ [][NextDecimal]_vars

(* C10 as claimed: called without an expected separator on a stream whose
   first byte is not a digit, '.', '+' or '-', getDecimal reads exactly
   that byte and returns the pair ("no value", that byte). *)
C10_EmptyRunReturnsPair ==
    (/\ pc \in {"decimal_done", "exit"} /\ inp.sep = NoByte
     /\ Len(inp.stream) > 0
     /\ inp.stream[1] \notin (48..57) \cup {46, 43, 45}) =>
        /\ pc = "decimal_done"
        /\ ret.used = 1 /\ rx = Tail(inp.stream)
        /\ ret.kind = "Pair"
        /\ ret.number.kind = "None"
        /\ ret.separator = inp.stream[1]

(* C11 as claimed: called with an expected separator on a stream whose
   numeric run (empty or not) is ended by a different byte, getDecimal
   fails instead of returning: with SeparatorMismatch, or with the
   conversion error when the run is not a number at all. *)
C11_MismatchFails ==
    (/\ pc \in {"decimal_done", "exit"} /\ inp.sep # NoByte
     /\ RunEnd(inp.stream, 1) <= Len(inp.stream)
     /\ inp.stream[RunEnd(inp.stream, 1)] # inp.sep) =>
        /\ pc = "exit"
        /\ err \in {"SeparatorMismatch", "ValueError"}

----------------------------------------------------------------------------
(* The sample decoder on its own (lines 378-423 of waveform): a sample block
   drawn from SampleBlocks, decoded with the trace_type of a waveform_t
   that has just been created. *)

Rep(byte, n) == [i \in 1..n |-> byte]

(* overload, underload, invalid, each `width' bytes wide *)
Sentinels(width) ==
    Rep(255, width) \o Rep(0, width)
    \o (IF width = 0 THEN <<>> ELSE Rep(255, width - 1) \o <<254>>)

Controls == {0, 1, 2, 65, 97, 113, 129}

RawBytes == {0, 5, 254, 255}

SampleBlock(control, count, raw) ==
    <<control>> \o Sentinels(control % 8) \o UIntBytes(count, 2) \o raw

SampleBlocks ==
    {<<>>, <<1>>, <<1, 255, 0>>}
    \cup {SampleBlock(c, n, raw) :
            c \in Controls, n \in 0..MaxGroups,
            raw \in UNION {[1..k -> RawBytes] : k \in 0..MaxRaw}}

FreshTraceType == ""

InitSamples ==
    /\ pc = "samples" /\ err = ""
    /\ args = [identify |-> FALSE, datetime |-> FALSE, screenshot |-> FALSE]
    /\ baud = FastBaud
    /\ rx = <<>> /\ sent = <<>> /\ ShotIdle /\ WaveIdle /\ MeasIdle
    /\ \E data \in SampleBlocks,
          yZero \in {Num(0, 0, "float"), Num(-15, 1, "float")},
          yResolution \in {Num(2, 1, "float")} :
        inp = [data |-> data, size |-> Len(data),
               yZero |-> yZero, yResolution |-> yResolution]
    /\ ret = <<>>

Samples ==
    /\ pc = "samples"
    /\ LET d == SampleDecode(inp.data, inp.size, FreshTraceType,
                             inp.yZero, inp.yResolution) IN
        /\ ret' = d
        /\ IF d.kind = "ok"
           THEN pc' = "samples_done" /\ err' = err
           ELSE Exit(d.kind)
    /\ UNCHANGED <<args, baud, rx, sent, shotVars, inp, waveVars, measVars>>

NextSamples == Samples

SpecSamples == InitSamples /\ [][NextSamples]_vars

(* The sample block read independently of the decoder: the raw sample
   number k, counted from 0, as a big-endian number of the declared width,
   two's complement when the control byte's top bit is set. *)
RawWidth(data) == data[1] % 8

RawCount(data) ==
    BigEndian(SubSeq(data, 2 + 3 * RawWidth(data), 3 + 3 * RawWidth(data)), 0)

RawField(data, from, width) ==
    LET u == BigEndian(SubSeq(data, from, from + width - 1), 0)
        span == BigEndian(<<1>> \o Rep(0, width), 0)
    IN IF data[1] >= 128 /\ width > 0 /\ 2 * u >= span THEN u - span ELSE u

RawSample(data, k) ==
    RawField(data, 4 + 3 * RawWidth(data) + k * RawWidth(data), RawWidth(data))

RawSentinel(data, n) ==
    RawField(data, 2 + n * RawWidth(data), RawWidth(data))

(* v = yZero + raw * yResolution, on exact decimals *)
IsReading(v, raw, yZero, yResolution) ==
    /\ v.kind = "fin"
    /\ v.v.m * Pow10(yZero.e + yResolution.e) =
        (yZero.m * Pow10(yResolution.e) + raw * yResolution.m * Pow10(yZero.e))
            * Pow10(v.v.e)

(* C13: every stored sample is +infinity when its raw value equals the
   overload sentinel, else -infinity when it equals the underload sentinel,
   else NaN when it equals the invalid sentinel, else yZero + raw *
   yResolution; group i slot j holds raw sample i * samplesPerGroup + j. *)
C13_SampleMapping ==
    pc = "samples_done" =>
        /\ Len(ret.samples) = RawCount(inp.data)
        /\ \A i \in 1..Len(ret.samples) :
            \A j \in 1..Len(ret.samples[i]) :
                LET raw == RawSample(inp.data,
                                (i - 1) * Len(ret.samples[i]) + (j - 1))
                    v == ret.samples[i][j]
                IN IF raw = RawSentinel(inp.data, 0) THEN v.kind = "inf"
                   ELSE IF raw = RawSentinel(inp.data, 1) THEN v.kind = "-inf"
                   ELSE IF raw = RawSentinel(inp.data, 2) THEN v.kind = "nan"
                   ELSE IsReading(v, raw, inp.yZero, inp.yResolution)

C13_Witness ==
    /\ pc = "samples_done" /\ inp.data[1] = 65 /\ Len(ret.samples) = 2
    /\ ret.samples[1][1].kind = "inf" /\ ret.samples[1][2].kind = "-inf"
    /\ ret.samples[2][1].kind = "nan" /\ ret.samples[2][2].kind = "fin"
    /\ ret.samples[2][2].v = Num(-5, 1, "float")

----------------------------------------------------------------------------
(* What the instrument answers to QW.  An administrative record is built
   from the fields the model varies; the others are fixed. *)
Float3(mantissa, exponent) == UIntBytes(mantissa, 2) \o <<exponent>>

Stamp(digits) == [i \in 1..Len(digits) |-> Digit(digits[i])]

StampOne == Stamp(<<2, 0, 2, 4, 0, 1, 3, 1, 1, 2, 0, 0, 0, 0>>)

StampTwo == Stamp(<<2, 0, 2, 4, 0, 1, 3, 1, 1, 2, 0, 0, 0, 1>>)

StampBad == Stamp(<<2, 0, 2, 4, 1, 3, 3, 1, 1, 2, 0, 0, 0, 0>>)

Admin(yUnit, xUnit, yScale, yAt0, stamp) ==
    [yUnit |-> yUnit, xUnit |-> xUnit, yScale |-> yScale, yAt0 |-> yAt0,
     stamp |-> stamp]

AdminBytes(p) ==
    <<0, p.yUnit, p.xUnit>> \o UIntBytes(8, 2) \o UIntBytes(10, 2)
    \o Float3(p.yScale, 0) \o Float3(1, 0) \o <<0, 0>>
    \o Float3(0, 0) \o Float3(0, 0) \o Float3(1, 0) \o Float3(1, 0)
    \o Float3(p.yAt0, 0) \o Float3(0, 0) \o p.stamp

Admins ==
    {Admin(1, 7, 2, 5, StampOne), Admin(2, 7, 3, 7, StampOne),
     Admin(2, 7, 3, 7, StampTwo), Admin(0, 7, 2, 5, StampOne),
     Admin(21, 21, 2, 5, StampOne), Admin(22, 7, 2, 5, StampOne),
     Admin(1, 22, 2, 5, StampOne), Admin(1, 7, 2, 5, StampBad)}

WaveBlocks ==
    {<<>>,
     SampleBlock(1, 2, <<3, 5>>),
     SampleBlock(1, 1, <<3>>), SampleBlock(1, 0, <<>>),
     SampleBlock(1, 2, <<3>>),
     SampleBlock(65, 2, <<3, 3, 5, 5>>), SampleBlock(65, 2, <<3, 3, 3, 3>>),
     SampleBlock(65, 2, <<3, 5, 5, 5>>), SampleBlock(65, 2, <<254, 254, 5, 5>>),
     SampleBlock(97, 1, <<3, 5, 3>>),
     SampleBlock(113, 1, <<3, 5, 3>>), SampleBlock(113, 1, <<3, 3>>),
     SampleBlock(0, 1, <<>>)}

WaveReply(ack, adminDeclared, adminDelta, p, sep, block, blockDelta, term) ==
    [ack |-> ack, admin |-> p, adminDeclared |-> adminDeclared,
     adminDelta |-> adminDelta, sep |-> sep, block |-> block,
     blockDelta |-> blockDelta, term |-> term]

WaveReplyBytes(w) ==
    w.ack
    \o BlockBytes(Preamble, 0, 2, w.adminDeclared,
                  SubSeq(AdminBytes(w.admin), 1, w.adminDeclared),
                  w.adminDelta)
    \o w.sep
    \o BlockBytes(Preamble, 129, 4, Len(w.block), w.block, w.blockDelta)
    \o w.term

GoodWaveReplies ==
    {WaveReply(GoodAck, AdminSize, 0, p, <<ChComma>>, b, 0, <<ChCR>>) :
        p \in Admins, b \in WaveBlocks}

BaseAdmin == Admin(1, 7, 2, 5, StampOne)

BaseBlock == SampleBlock(1, 2, <<3, 5>>)

DamagedWaveReplies ==
    {WaveReply(a, AdminSize, 0, BaseAdmin, <<ChComma>>, BaseBlock, 0,
               <<ChCR>>) : a \in BadAcks}
    \cup {WaveReply(GoodAck, n, 0, BaseAdmin, <<ChComma>>, BaseBlock, 0,
                    <<ChCR>>) : n \in {AdminSize - 1}}
    \cup {WaveReply(GoodAck, AdminSize, 1, BaseAdmin, <<ChComma>>, BaseBlock,
                    0, <<ChCR>>)}
    \cup {WaveReply(GoodAck, AdminSize, 0, BaseAdmin, sep, BaseBlock, 0,
                    <<ChCR>>) : sep \in {<<ChSemi>>, <<ChCR>>}}
    \cup {WaveReply(GoodAck, AdminSize, 0, BaseAdmin, <<ChComma>>, BaseBlock,
                    1, <<ChCR>>)}
    \cup {WaveReply(GoodAck, AdminSize, 0, p, <<ChComma>>, BaseBlock, 0,
                    term) :
            p \in {BaseAdmin, Admin(2, 7, 3, 7, StampOne)},
            term \in {<<ChX>>, <<ChComma>>, <<>>}}

(* cut: how many bytes of the reply arrive before the instrument stops *)
CutPoints == {5, 30, 57, 58, 62, 70}

WaveReplies ==
    {[reply |-> w, cut |-> Len(WaveReplyBytes(w))] :
        w \in GoodWaveReplies \cup DamagedWaveReplies}
    \cup {[reply |-> WaveReply(GoodAck, AdminSize, 0, BaseAdmin, <<ChComma>>,
                               BaseBlock, 0, <<ChCR>>),
           cut |-> k] : k \in CutPoints}

(* What the operator types at the menu: a letter, taken as its distance
   from 'a', or nothing at all. *)
NoInput == -100

MenuInputs == (0..QuitChoice) \cup {QuitChoice + 1, -32, NoInput}

WaveReset ==
    waveform_type' = -1 /\ waveforms' = <<>> /\ traces' = <<>>

WaveMenu ==
    /\ pc = "wave_menu"
    /\ \E choice \in MenuInputs :
        IF choice = NoInput
        THEN Exit("IndexError") /\ UNCHANGED waveVars
        ELSE /\ waveform_type' = choice
             /\ err' = err
             /\ UNCHANGED <<waveforms, traces>>
             /\ pc' = IF MenuAgain(choice) THEN "wave_menu"
                      ELSE IF choice = QuitChoice THEN "wave_done"
                      ELSE "wave_query"
    /\ sent' = <<>>
    /\ UNCHANGED <<args, baud, rx, shotVars, inp, ret, measVars>>

WaveQuery ==
    /\ pc = "wave_query"
    /\ \E d \in WaveReplies :
        LET reply == SubSeq(WaveReplyBytes(d.reply), 1, d.cut)
            number == Len(waveforms)
            r == sendCommand(reply, TRUE)
            w == waveform(r.rest)
        IN /\ sent' = Append(sent,
                        Written(QueryCommand(number, waveform_type), TRUE,
                                reply))
           /\ traces' =
                Append(traces,
                    [reply |-> d.reply, cut |-> d.cut,
                     result |-> IF Returns(r.outcome) THEN w.kind
                                ELSE r.outcome,
                     returned |-> IF Returns(r.outcome) THEN w.waveform
                                  ELSE <<>>])
           /\ waveform_type' = waveform_type
           /\ IF ~Returns(r.outcome)
              THEN rx' = r.rest /\ Exit(r.outcome) /\ waveforms' = waveforms
              ELSE /\ rx' = w.rest
                   /\ IF w.kind # "ok"
                      THEN Exit(w.kind) /\ waveforms' = waveforms
                      ELSE /\ waveforms' =
                                Append(waveforms,
                                    Acquired(w.waveform, number,
                                             waveform_type))
                           /\ err' = err
                           /\ pc' =
                                IF number + 1 < WaveformCount(waveform_type)
                                THEN "wave_query"
                                ELSE AfterAcquire(waveform_type)
    /\ UNCHANGED <<args, baud, shotVars, inp, ret, measVars>>

WavePower ==
    /\ pc = "wave_power"
    /\ LET p == Power(waveforms) IN
        IF p.kind = "ok"
        THEN /\ waveforms' = <<p.waveform>>
             /\ err' = err
             /\ pc' = IF IsPsd(waveform_type) THEN "wave_psd"
                      ELSE "wave_write"
        ELSE Exit(p.kind) /\ waveforms' = waveforms
    /\ UNCHANGED <<args, baud, rx, sent, shotVars, inp, ret, waveform_type,
                   traces, measVars>>

WavePsd ==
    /\ pc = "wave_psd"
    /\ IF Len(waveforms[1].samples) = 0
       THEN Exit("IndexError") /\ waveforms' = waveforms
       ELSE /\ waveforms' = <<PsdWaveform(waveforms[1])>>
            /\ pc' = "wave_write" /\ err' = err
    /\ UNCHANGED <<args, baud, rx, sent, shotVars, inp, ret, waveform_type,
                   traces, measVars>>

(* Lines 570-594: each waveform is written to its file and titled. *)
WaveWrite ==
    /\ pc = "wave_write"
    /\ IF \A i \in 1..Len(waveforms) : Nameable(waveforms[i])
       THEN pc' = "wave_done" /\ err' = err /\ WaveReset
       ELSE Exit("TypeError") /\ UNCHANGED waveVars
    /\ UNCHANGED <<args, baud, rx, sent, shotVars, inp, ret, measVars>>

NextWave == WaveMenu \/ WaveQuery \/ WavePower \/ WavePsd \/ WaveWrite

(* waveforms() entered on an initialized port with nothing unread *)
InitWave ==
    /\ pc = "wave_menu" /\ err = ""
    /\ args = [identify |-> FALSE, datetime |-> FALSE, screenshot |-> FALSE]
    /\ baud = FastBaud
    /\ rx = <<>> /\ sent = <<>> /\ ShotIdle /\ WaveIdle /\ MeasIdle
    /\ inp = <<>> /\ ret = <<>>

SpecWave == InitWave /\ [][NextWave]_vars

----------------------------------------------------------------------------
(* Properties of the waveform acquisition. *)

(* The waveforms of the list are still the ones acquired: neither the
   power combination nor the spectral estimate has replaced them. *)
Untouched ==
    \/ pc \in {"wave_query", "wave_power"}
    \/ pc = "wave_psd" /\ ~IsPower(waveform_type)
    \/ pc = "wave_write" /\ ~IsPower(waveform_type) /\ ~IsPsd(waveform_type)

(* The kind being acquired is a trend: menu entries (d) and (h). *)
TrendChosen == waveform_type \in {3, 7}

(* Slots per group as bits 4-6 of the control byte announce them. *)
SlotsAnnounced(control, trend) ==
    LET bits == (control \div 16) % 8
    IN IF bits = 6 THEN 3
       ELSE IF bits = 4 THEN 2
       ELSE IF bits = 7 THEN (IF trend THEN 3 ELSE 2)
       ELSE 1

(* C12 as claimed: a waveform returned for a menu acquisition has the slots
   per group its control byte announces: 1 for 0b000, 2 for 0b100, 3 for
   0b110, and for 0b111 3 when a trend is being acquired and 2 otherwise. *)
C12_SlotsPerGroup ==
    \A i \in 1..Len(traces) :
        traces[i].result = "ok" =>
            traces[i].returned.slots =
                SlotsAnnounced(traces[i].reply.block[1], TrendChosen)

(* 1 control byte + 3 sentinels + 2 count bytes + the samples counted *)
CursorAfter(data, trend) ==
    3 + 3 * RawWidth(data)
    + RawCount(data) * SlotsAnnounced(data[1], trend) * RawWidth(data)

(* C14 as claimed: a waveform is returned only if the cursor after the
   last sample equals the declared size of the sample block, and the
   program ends with SizeMismatch only for a block of another size. *)
C14_CursorRule ==
    \A i \in 1..Len(traces) :
        LET block == traces[i].reply.block
            whole == Len(block) > 0 /\ Len(block) >= 3 + 3 * RawWidth(block)
        IN /\ traces[i].result = "ok" =>
                whole /\ CursorAfter(block, TrendChosen) = Len(block)
           /\ traces[i].result = "SizeMismatch" =>
                ~(whole /\ CursorAfter(block, TrendChosen) = Len(block))

(* C15 as claimed: a waveform is returned only for a reply that is, in
   full, an acknowledgement, an administrative block of declared size 47
   with its checksum, a comma, a sample block with its checksum and a
   trailing CR. *)
C15_ExactSequence ==
    \A i \in 1..Len(traces) :
        traces[i].result = "ok" =>
            LET w == traces[i].reply IN
            /\ traces[i].cut = Len(WaveReplyBytes(w))
            /\ w.ack = <<48, 13>>
            /\ w.adminDeclared = 47 /\ w.adminDelta = 0
            /\ w.sep = <<44>>
            /\ w.blockDelta = 0
            /\ w.term = <<13>>

(* C16 as claimed: in a trace-family acquisition a matrix of 2 slots per
   group whose slots are equal in every group becomes an "average" of as
   many groups of 1 slot, group i holding the value of the original group
   i; with any unequal group it is a "glitch" and is kept as it was. *)
C16_AverageGlitch ==
    Untouched /\ waveform_type % 4 < 2 =>
        \A i \in 1..Len(waveforms) :
            LET before == traces[i].returned
                after == waveforms[i]
            IN before.slots = 2 =>
                IF \A g \in 1..Len(before.samples) :
                        SampleEq(before.samples[g][1], before.samples[g][2])
                THEN /\ after.trace_type = "average"
                     /\ Len(after.samples) = Len(before.samples)
                     /\ \A g \in 1..Len(after.samples) :
                            after.samples[g] = <<before.samples[g][1]>>
                ELSE /\ after.trace_type = "glitch"
                     /\ after.samples = before.samples

(* A power waveform stands in the list. *)
Combined ==
    /\ IsPower(waveform_type)
    /\ pc \in {"wave_psd", "wave_write"}
    /\ Len(waveforms) = 1 /\ waveforms[1].channel = "both"
    /\ waveforms[1].trace_type \in {"power", "average power"}

(* The kind and the width a waveform returned by waveform() is given in a
   trace-family acquisition. *)
EqualSlots(r) ==
    \A g \in 1..Len(r.samples) : SampleEq(r.samples[g][1], r.samples[g][2])

KindOf(r) ==
    IF r.slots # 2 THEN "trace"
    ELSE IF EqualSlots(r) THEN "average" ELSE "glitch"

SingleSlot(r) == r.slots = 1 \/ (r.slots = 2 /\ EqualSlots(r))

(* C17 as claimed: a power waveform is produced only from two waveforms
   of 1 slot per group, of the same kind, with the same timestamp, in V on
   channel A and in A on channel B. *)
C17_PowerChecks ==
    Combined =>
        LET a == traces[1].returned
            b == traces[2].returned
        IN /\ a.timestamp = b.timestamp
           /\ a.y_unit = "V" /\ b.y_unit = "A"
           /\ KindOf(a) = KindOf(b)
           /\ SingleSlot(a) /\ SingleSlot(b)

(* C18 as claimed: the power waveform is in W, its samples are the
   products of the two inputs' samples, its y scale the product of the two
   y scales and its origin value the product of the two origin values. *)
C18_PowerValues ==
    Combined =>
        LET a == traces[1].returned
            b == traces[2].returned
            p == waveforms[1]
        IN /\ p.y_unit = "W"
           /\ (a.slots = 1 /\ b.slots = 1) =>
                \A i \in 1..Len(p.samples) :
                    p.samples[i] = <<SampleMul(a.samples[i][1],
                                               b.samples[i][1])>>
           /\ p.y_scale = NumMul(a.y_scale, b.y_scale)
           /\ p.y_at_0 = NumMul(a.y_at_0, b.y_at_0)

(* The administrative block of reply i arrived whole, behind a good
   acknowledgement, with the size and the checksum waveform() asks for. *)
AdminArrived(i) ==
    /\ traces[i].reply.ack = <<48, 13>>
    /\ traces[i].reply.adminDeclared = 47
    /\ traces[i].reply.adminDelta = 0
    /\ traces[i].cut >= 57

(* Some entries of the instrument's unit table, by index. *)
SymbolAt(index) ==
    CASE index = 0 -> "None"
      [] index = 1 -> "V"
      [] index = 2 -> "A"
      [] index = 7 -> "s"
      [] index = 21 -> "VA"

(* C19 as claimed: with 21 entries, an index byte above 20 ends the decode
   with an index error. *)
C19_TwentyOneEntries ==
    \A i \in 1..Len(traces) :
        (/\ AdminArrived(i)
         /\ (traces[i].reply.admin.yUnit > 20
                \/ traces[i].reply.admin.xUnit > 20)) =>
            traces[i].result = "IndexError"

(* C19: the unit table has 22 entries, indexed 0 to 21.  Index bytes up to
   21 yield the table's entries; a y or x index byte above 21 ends the
   decode with an index error and no waveform. *)
C19_UnitLookup ==
    \A i \in 1..Len(traces) :
        LET w == traces[i].reply
            high == w.admin.yUnit > 21 \/ w.admin.xUnit > 21
        IN AdminArrived(i) =>
            /\ high => traces[i].result = "IndexError"
                        /\ traces[i].returned = <<>>
            /\ traces[i].result = "ok" =>
                /\ traces[i].returned.y_unit = SymbolAt(w.admin.yUnit)
                /\ traces[i].returned.x_unit = SymbolAt(w.admin.xUnit)
            /\ (~high /\ w.block # <<>> /\ w.term # <<>>
                    /\ traces[i].cut = Len(WaveReplyBytes(w))) =>
                traces[i].result # "IndexError"

C19_Witness ==
    \E i \in 1..Len(traces) :
        /\ AdminArrived(i) /\ traces[i].reply.admin.yUnit = 21
        /\ traces[i].reply.admin.xUnit = 21
        /\ traces[i].result = "ok"
        /\ traces[i].returned.y_unit = "VA"
        /\ traces[i].returned.x_unit = "VA"

----------------------------------------------------------------------------
(* si: the conditions under which the formatter raises instead of
   returning a string (lines 603-658). *)

RECURSIVE DigitCount(_)
DigitCount(n) == IF n < 10 THEN 1 ELSE 1 + DigitCount(n \div 10)

Abs(n) == IF n < 0 THEN 0 - n ELSE n

(* math.floor(math.log10(abs(x))) of a number other than 0 *)
FloorLog10(x) == DigitCount(Abs(x.m)) - 1 - x.e

(* degree(number), line 616 *)
Degree(x) == FloorLog10(x) \div 3

PrefixCount == 9

(* prefix(degree) finds an entry in the table of its sign *)
PrefixInRange(degree) == degree < PrefixCount /\ 0 - degree < PrefixCount

(* How si(number, precision, unit) ends: "ok" when it returns a string,
   "ValueError" for the logarithm of a number that is not positive,
   "IndexError" past the prefix tables, "TypeError" for the unit None. *)
SiOutcome(number, precision, unit) ==
    IF precision.m < 0 THEN "ValueError"
    ELSE IF number.m # 0 /\ precision.m # 0 /\ number.m < 0
    THEN "ValueError"
    ELSE IF number.m = 0 /\ precision.m = 0 THEN "ValueError"
    ELSE IF ~PrefixInRange(Degree(IF number.m # 0 THEN number
                                  ELSE precision))
    THEN "IndexError"
    ELSE IF unit = "None" THEN "TypeError"
    ELSE "ok"

----------------------------------------------------------------------------
(* measurement: the metadata query, the selection and the value query. *)

QuitMeasure == 5

(* while measurement_type<0 or measurement_type>5 *)
MeasureAgain(choice) == choice < 0 \/ choice > QuitMeasure

MeasurementCount(choice) == IF choice # 0 THEN 2 ELSE 1

(* The keys of nos (lines 757-766) and of sources (lines 768-775), and the
   length of types (lines 720-755). *)
NosKeys == {11, 21, 31, 41, 53, 54, 55, 61, 71}

SourceKeys == {1, 2, 3, 4, 5, 12, 21}

TypesCount == 35

(* a number used as a dictionary key that equals the integer key k *)
NumIsInt(n) == n.kind # "None" /\ n.e = 0

KeyIn(n, keys) == NumIsInt(n) /\ n.m \in keys

(* a number used as a list index into a list of `count' entries, with
   Python's indexing from the end for negative values *)
IndexOutcome(n, count) ==
    IF n.kind # "int" THEN "TypeError"
    ELSE IF n.m >= count \/ n.m < 0 - count THEN "IndexError"
    ELSE "ok"

ListIndex(n, count) == IF n.m < 0 THEN n.m + count ELSE n.m

ReadingUnit(reading) == UnitAt(ListIndex(reading.unit, Len(units)))

SourceName(n) ==
    CASE n.m = 1 -> "Input A"
      [] n.m = 2 -> "Input B"
      [] n.m = 3 -> "Input C"
      [] n.m = 4 -> "Input D"
      [] n.m = 5 -> "External Input"
      [] n.m = 12 -> "Input A vs Input B"
      [] n.m = 21 -> "Input B vs Input A"

(* a * 10.0**k for a whole number k *)
Scale10(a, k) ==
    IF k >= 0 THEN Num(a.m * Pow10(k), a.e, "float")
    ELSE Num(a.m, a.e - k, "float")

(* Lines 791-797: the six fields that end in a comma.  values holds what
   each getDecimal returned (NoNumber for None). *)
RECURSIVE CommaFields(_, _, _)
CommaFields(stream, count, fields) ==
    IF count = 0 THEN [kind |-> "ok", values |-> fields, rest |-> stream]
    ELSE LET d == getDecimal(stream, ChComma)
         IN IF d.kind \in {"Number", "None"}
            THEN CommaFields(Drop(stream, d.used), count - 1,
                             Append(fields, d.number))
            ELSE [kind |-> d.kind, values |-> fields,
                  rest |-> Drop(stream, d.used)]

FieldsPerReading == 6

(* Lines 790-804: one descriptor.  kind "ok" carries the reading and the
   separator that ended its exponent; "TypeError" is the None that cannot
   be unpacked (line 800) or multiplied (line 801). *)
ReadingFailed(kind, left) ==
    [kind |-> kind, reading |-> <<>>, separator |-> NoByte, rest |-> left]

(* line 792: getDecimal(port, ',') == 1 *)
IsOne(n) == n.kind # "None" /\ n = Num(1, 0, n.kind)

(* lines 800-804, once both parts of the resolution have been read *)
ReadingResolved(fields, mantissa, exponent, rest) ==
    IF exponent.kind = "None" THEN ReadingFailed("TypeError", rest)
    ELSE IF exponent.kind # "Pair" THEN ReadingFailed(exponent.kind, rest)
    ELSE IF mantissa.kind = "None" THEN ReadingFailed("TypeError", rest)
    ELSE [kind |-> "ok",
          reading |->
             [no |-> fields[1], valid |-> IsOne(fields[2]),
              source |-> fields[3], unit |-> fields[4],
              thetype |-> fields[5], pres |-> fields[6],
              resolution |-> Scale10(mantissa.number, exponent.number.m)],
          separator |-> exponent.separator,
          rest |-> rest]

(* line 800: the exponent and the separator after it *)
ReadingExponent(fields, mantissa, exponent, stream) ==
    ReadingResolved(fields, mantissa, exponent, Drop(stream, exponent.used))

(* line 799: the mantissa, up to the 'E' *)
ReadingMantissa(fields, mantissa, stream) ==
    IF mantissa.kind \notin {"Number", "None"}
    THEN ReadingFailed(mantissa.kind, Drop(stream, mantissa.used))
    ELSE ReadingExponent(fields, mantissa,
                         getDecimal(Drop(stream, mantissa.used), NoByte),
                         Drop(stream, mantissa.used))

ReadingFields(f) ==
    IF f.kind # "ok" THEN ReadingFailed(f.kind, f.rest)
    ELSE ReadingMantissa(f.values, getDecimal(f.rest, ChE), f.rest)

ReadingParse(stream) ==
    ReadingFields(CommaFields(stream, FieldsPerReading, <<>>))

(* Lines 786-804: descriptors are read for as long as the one before ended
   in a comma; the valid ones are kept. *)
Keep_whateverTheFlag(kept, reading) == Append(kept, reading)

(* lines 803-804 *)
Keep(kept, reading) ==
    IF reading.valid THEN Append(kept, reading) ELSE kept

RECURSIVE ReadingsParse(_, _)

ReadingsStep(r, kept) ==
    IF r.kind # "ok"
    THEN [kind |-> r.kind, readings |-> kept, rest |-> r.rest]
    ELSE IF r.separator = ChComma
    THEN ReadingsParse(r.rest, Keep(kept, r.reading))
    ELSE [kind |-> "ok", readings |-> Keep(kept, r.reading),
          rest |-> r.rest]

ReadingsParse(stream, kept) == ReadingsStep(ReadingParse(stream), kept)

(* Lines 809-816: what printing one offered reading raises, if anything *)
ShowOutcome(reading) ==
    IF ~KeyIn(reading.no, NosKeys) THEN "KeyError"
    ELSE IF ~KeyIn(reading.source, SourceKeys) THEN "KeyError"
    ELSE IF IndexOutcome(reading.thetype, TypesCount) # "ok"
    THEN IndexOutcome(reading.thetype, TypesCount)
    ELSE IF IndexOutcome(reading.unit, Len(units)) # "ok"
    THEN IndexOutcome(reading.unit, Len(units))
    ELSE SiOutcome(reading.resolution, Num(0, 0, "int"),
                   ReadingUnit(reading))

RECURSIVE ListOutcome(_)
ListOutcome(list) ==
    IF list = <<>> THEN "ok"
    ELSE IF ShowOutcome(list[1]) # "ok" THEN ShowOutcome(list[1])
    ELSE ListOutcome(Tail(list))

(* ord('a') > ord(desired) or ord(desired) >= ord('a')+len(readings) *)
OutOfRange(desired, list) == desired < 0 \/ desired >= Len(list)

(* "QM {:d}".format(reading.no) for the identifiers nos knows *)
ValueCommand(no) ==
    CASE no.m = 11 -> "QM 11"
      [] no.m = 21 -> "QM 21"
      [] no.m = 31 -> "QM 31"
      [] no.m = 41 -> "QM 41"
      [] no.m = 53 -> "QM 53"
      [] no.m = 54 -> "QM 54"
      [] no.m = 55 -> "QM 55"
      [] no.m = 61 -> "QM 61"
      [] no.m = 71 -> "QM 71"

(* Line 833: getDecimal(port, 'E') * 10.0**getDecimal(port, '\r').  Both
   fields are read before the product is taken. *)
ValueFailed(kind, left) == [kind |-> kind, value |-> NoNumber, rest |-> left]

ValueProduct(mantissa, exponent, rest) ==
    IF exponent.kind \notin {"Number", "None"}
    THEN ValueFailed(exponent.kind, rest)
    ELSE IF mantissa.kind = "None" \/ exponent.kind = "None"
    THEN ValueFailed("TypeError", rest)
    ELSE [kind |-> "ok",
          value |-> Scale10(mantissa.number, exponent.number.m),
          rest |-> rest]

ValueExponent(mantissa, exponent, stream) ==
    ValueProduct(mantissa, exponent, Drop(stream, exponent.used))

ValueMantissa(mantissa, stream) ==
    IF mantissa.kind \notin {"Number", "None"}
    THEN ValueFailed(mantissa.kind, Drop(stream, mantissa.used))
    ELSE ValueExponent(mantissa,
                       getDecimal(Drop(stream, mantissa.used), ChCR),
                       Drop(stream, mantissa.used))

ValueParse(stream) == ValueMantissa(getDecimal(stream, ChE), stream)

(* What the instrument answers to QM: descriptors, each followed by the
   byte that ends it.  A descriptor is the seven fields of a reading in
   decimal text. *)
Dec(n) == IF n < 10 THEN <<Digit(n)>> ELSE <<Digit(n \div 10), Digit(n % 10)>>

Descriptor(no, valid, unit, exponent) ==
    [no |-> no, valid |-> valid, unit |-> unit, exponent |-> exponent]

DescriptorBytes(d) ==
    Dec(d.no) \o <<ChComma>> \o Dec(d.valid) \o <<ChComma>>
    \o Dec(1) \o <<ChComma>> \o Dec(d.unit) \o <<ChComma>>
    \o Dec(1) \o <<ChComma>> \o Dec(0) \o <<ChComma>>
    \o Dec(1) \o <<ChE>> \o d.exponent

MinusThree == <<ChMinus, Digit(3)>>

Descriptors ==
    {Descriptor(11, 1, 1, MinusThree), Descriptor(21, 1, 2, MinusThree),
     Descriptor(21, 0, 2, MinusThree)}

OddDescriptors ==
    {Descriptor(99, 1, 1, MinusThree), Descriptor(11, 1, 0, MinusThree),
     Descriptor(11, 1, 1, <<>>), Descriptor(11, 2, 1, MinusThree)}

(* a list of descriptors and the byte after each *)
RECURSIVE ListBytes(_)
ListBytes(list) ==
    IF list = <<>> THEN <<>>
    ELSE DescriptorBytes(list[1].d) \o list[1].end \o ListBytes(Tail(list))

Ended(d, end) == [d |-> d, end |-> end]

DescriptorLists ==
    {<<Ended(d, end)>> :
        d \in Descriptors \cup OddDescriptors, end \in {<<ChCR>>, <<ChSemi>>}}
    \cup {<<Ended(d, <<ChComma>>), Ended(e, <<ChCR>>)>> :
            d \in Descriptors, e \in Descriptors}
    \cup {<<Ended(d, <<ChSemi>>), Ended(e, <<ChCR>>)>> :
            d \in {Descriptor(21, 0, 2, MinusThree),
                   Descriptor(21, 1, 2, MinusThree)},
            e \in {Descriptor(11, 1, 1, MinusThree)}}
    \cup {<<Ended(Descriptor(11, 1, 1, MinusThree), <<>>)>>, <<>>}

MeasureAcks == {GoodAck, <<>>}

Two == <<Digit(2)>>

ValueBodies ==
    {Two \o <<ChE>> \o MinusThree \o <<ChCR>>,
     <<ChMinus>> \o Two \o <<ChE, Digit(0), ChCR>>,
     <<Digit(4), ChE, Digit(0), ChCR>>, <<Digit(0), ChE, Digit(0), ChCR>>,
     Two \o <<ChCR>>, Two \o <<ChE>>}

(* What the operator types when asked for a reading: a letter, taken as its
   distance from 'a' once lowered, or nothing at all. *)
SelectInputs == {0, 1, 2, -49, NoInput}

(* the selection before the operator has been asked *)
Unasked == NoInput - 1

MeasureMenu ==
    /\ pc = "measure_menu"
    /\ \E choice \in (0..QuitMeasure) \cup {QuitMeasure + 1, -32, NoInput} :
        IF choice = NoInput
        THEN Exit("IndexError") /\ UNCHANGED measVars
        ELSE /\ measurement_type' = choice
             /\ err' = err
             /\ measurement_number' = 0 /\ readings' = <<>>
             /\ measurement' = measurement_t /\ first' = measurement_t
             /\ metadata' = <<>>
             /\ pc' = IF MeasureAgain(choice) THEN "measure_menu"
                      ELSE IF choice = QuitMeasure THEN "measure_done"
                      ELSE "measure_query"
    /\ sent' = <<>>
    /\ UNCHANGED <<args, baud, rx, shotVars, inp, ret, waveVars, reportVars>>

(* Lines 706-817: the metadata query, the descriptors, the list shown. *)
MeasureQuery ==
    /\ pc = "measure_query"
    /\ \E ack \in MeasureAcks, list \in DescriptorLists :
        LET reply == IF ack = GoodAck THEN ack \o ListBytes(list) ELSE ack
            r == sendCommand(reply, TRUE)
            p == ReadingsParse(r.rest, <<>>)
            outcome == IF ~Returns(r.outcome) THEN r.outcome
                       ELSE IF p.kind # "ok" THEN p.kind
                       ELSE ListOutcome(p.readings)
        IN /\ sent' = Append(sent, Written("QM", TRUE, reply))
           /\ metadata' = [list |-> IF ack = GoodAck THEN list ELSE <<>>,
                           outcome |-> outcome, desired |-> Unasked]
           /\ rx' = IF Returns(r.outcome) THEN p.rest ELSE r.rest
           /\ IF outcome = "ok"
              THEN pc' = "measure_select" /\ err' = err
                   /\ readings' = p.readings
              ELSE Exit(outcome) /\ readings' = readings
    /\ UNCHANGED <<args, baud, shotVars, inp, ret, waveVars, reportVars,
                   measurement_type, measurement_number, measurement, first>>

(* Lines 818-839: the selection, the value query, the result shown. *)
MeasureSelect ==
    /\ pc = "measure_select"
    /\ \E desired \in SelectInputs, ack \in MeasureAcks,
          body \in ValueBodies :
        LET reading == readings[desired + 1]
            reply == IF ack = GoodAck THEN ack \o body ELSE ack
            r == sendCommand(reply, TRUE)
            v == ValueParse(r.rest)
            result == [measurement EXCEPT
                            !.source = SourceName(reading.source),
                            !.unit = ReadingUnit(reading),
                            !.precision = reading.resolution,
                            !.value = v.value]
            shown == SiOutcome(v.value, reading.resolution,
                               ReadingUnit(reading))
        IN /\ metadata' = [metadata EXCEPT !.desired = desired]
           /\ UNCHANGED <<measurement_type, readings>>
           /\ IF desired = NoInput \/ OutOfRange(desired, readings)
              THEN /\ Exit(IF desired = NoInput THEN "IndexError"
                           ELSE "SelectionOutOfRange")
                   /\ UNCHANGED <<rx, sent, measurement, first,
                                  measurement_number>>
              ELSE IF reading.no.kind # "int"
              THEN /\ Exit("ValueError")
                   /\ UNCHANGED <<rx, sent, measurement, first,
                                  measurement_number>>
              ELSE /\ sent' = Append(sent,
                                Written(ValueCommand(reading.no), TRUE,
                                        reply))
                   /\ IF ~Returns(r.outcome)
                      THEN /\ rx' = r.rest /\ Exit(r.outcome)
                           /\ UNCHANGED <<measurement, first,
                                          measurement_number>>
                      ELSE /\ rx' = v.rest
                           /\ IF v.kind # "ok" \/ shown # "ok"
                              THEN /\ Exit(IF v.kind # "ok" THEN v.kind
                                           ELSE shown)
                                   /\ UNCHANGED <<measurement, first,
                                                  measurement_number>>
                              ELSE /\ measurement' = result
                                   /\ first' = IF measurement_number = 0
                                               THEN result ELSE first
                                   /\ measurement_number' =
                                        measurement_number + 1
                                   /\ err' = err
                                   /\ pc' =
                                        IF measurement_number + 1 <
                                            MeasurementCount(measurement_type)
                                        THEN "measure_query"
                                        ELSE "measure_combine"
    /\ UNCHANGED <<args, baud, shotVars, inp, ret, waveVars, reportVars>>

(* Lines 841-876: the two readings combined, and the final result shown. *)
NumNeg(a) == [a EXCEPT !.m = 0 - a.m]

NumSub(a, b) == NumAdd(a, NumNeg(b))

(* n / d as the decimal <<m, e>>, for a quotient with finitely many places *)
RECURSIVE Quotient(_, _, _)
Quotient(n, d, e) ==
    IF n % d = 0 THEN <<n \div d, e>> ELSE Quotient(n * 10, d, e + 1)

NumDiv(a, b) ==
    LET sign == IF b.m < 0 THEN -1 ELSE 1
        q == Quotient(sign * a.m * Pow10(b.e), Abs(b.m) * Pow10(a.e), 0)
    IN Num(q[1], q[2], "float")

Hundred == 100

Percent == "%"

Additive_secondMinusFirst(type, a, b) ==
    [kind |-> IF b.unit # a.unit THEN "UnitsDiffer" ELSE "ok",
     measurement |->
        [b EXCEPT !.value = IF type = 1 THEN NumAdd(a.value, b.value)
                            ELSE NumSub(b.value, a.value),
                  !.precision = NumAdd(a.precision, b.precision)]]

(* lines 845-850: the sum or the difference *)
Additive(type, a, b) ==
    [kind |-> IF b.unit # a.unit THEN "UnitsDiffer" ELSE "ok",
     measurement |->
        [b EXCEPT !.value = IF type = 1 THEN NumAdd(a.value, b.value)
                            ELSE NumSub(a.value, b.value),
                  !.precision = NumAdd(a.precision, b.precision)]]

(* lines 854-858 and 860-864: the unit of a product and of a quotient *)
ProductUnit(a, b) ==
    IF a.unit = b.unit THEN b.unit \o "^2" ELSE a.unit \o b.unit

QuotientUnit(a, b) ==
    IF a.unit = b.unit THEN Percent ELSE a.unit \o "/" \o b.unit

(* lines 865-867: value * (precB/b + precA/a) *)
RelativePrecision(value, a, b) ==
    NumMul(value, NumAdd(NumDiv(b.precision, b.value),
                         NumDiv(a.precision, a.value)))

Scaled_never(m) == m

(* lines 869-871 *)
Scaled(m) ==
    IF m.unit = Percent
    THEN [m EXCEPT !.value = NumMulInt(m.value, Hundred),
                   !.precision = NumMulInt(m.precision, Hundred)]
    ELSE m

(* lines 852-871: the product or the quotient *)
Multiplicative(type, a, b) ==
    IF NumIsZero(b.value) \/ NumIsZero(a.value)
    THEN [kind |-> "ZeroDivisionError", measurement |-> b]
    ELSE LET value == IF type = 3 THEN NumMul(a.value, b.value)
                      ELSE NumDiv(a.value, b.value)
         IN [kind |-> "ok",
             measurement |->
                Scaled([b EXCEPT
                    !.unit = IF type = 3 THEN ProductUnit(a, b)
                             ELSE QuotientUnit(a, b),
                    !.precision = RelativePrecision(value, a, b),
                    !.value = value])]

(* lines 841-871, for the types that take two readings *)
Combine(type, a, b) ==
    IF type < 3 THEN Additive(type, a, b) ELSE Multiplicative(type, a, b)

MeasureCombine ==
    /\ pc = "measure_combine"
    /\ LET c == Combine(measurement_type, first, measurement)
           shown == SiOutcome(c.measurement.value, c.measurement.precision,
                              c.measurement.unit)
       IN IF measurement_type = 0
          THEN /\ pc' = "measure_title" /\ err' = err
               /\ UNCHANGED <<measurement, metadata>>
          ELSE /\ metadata' = [list |-> metadata.list,
                               outcome |-> metadata.outcome,
                               desired |-> metadata.desired,
                               second |-> measurement,
                               combined |-> c.kind = "ok" /\ shown = "ok"]
               /\ IF c.kind # "ok"
                  THEN Exit(c.kind) /\ measurement' = measurement
                  ELSE IF shown # "ok"
                  THEN Exit(shown) /\ measurement' = measurement
                  ELSE /\ pc' = "measure_title" /\ err' = err
                       /\ measurement' = c.measurement
    /\ UNCHANGED <<args, baud, rx, sent, shotVars, inp, ret, waveVars,
                   reportVars,
                   measurement_type, measurement_number, readings, first>>

Titles == {"", "T"}

(* lines 878-880: the title, and the measurement returned *)
MeasureTitle ==
    /\ pc = "measure_title"
    /\ \E title \in Titles :
        measurement' = [measurement EXCEPT !.name = title]
    /\ pc' = "measure_returned"
    /\ UNCHANGED <<err, args, baud, rx, sent, shotVars, inp, ret, waveVars,
                   reportVars,
                   measurement_type, measurement_number, readings, first,
                   metadata>>

NextMeasure ==
    \/ MeasureMenu \/ MeasureQuery \/ MeasureSelect
    \/ MeasureCombine \/ MeasureTitle

(* measurement() entered on an initialized port with nothing unread *)
InitMeasure ==
    /\ pc = "measure_menu" /\ err = ""
    /\ args = [identify |-> FALSE, datetime |-> FALSE, screenshot |-> FALSE]
    /\ baud = FastBaud
    /\ rx = <<>> /\ sent = <<>> /\ ShotIdle /\ WaveIdle /\ MeasIdle
    /\ inp = <<>> /\ ret = <<>>

SpecMeasure == InitMeasure /\ [][NextMeasure]_vars

----------------------------------------------------------------------------
(* C24 as claimed: for an announced length that is a whole number from 0
   up, while the transfer goes on to another round or to the file, the
   buffer holds no more bytes than were announced and the remaining length
   is not below 0: a payload that overruns the remaining length is fatal. *)
C24_NeverExceedsAnnounced ==
    (pc \in {"shot_round", "shot_write"}
        /\ total.kind = "int" /\ total.m >= 0) =>
        /\ Len(image) <= total.m
        /\ dataLength.m >= 0

----------------------------------------------------------------------------
(* The measurement query, against the descriptors the instrument sent. *)

(* the descriptors up to and including the first not ended by a comma *)
RECURSIVE ParsedPrefix(_)
ParsedPrefix(list) ==
    IF list = <<>> THEN <<>>
    ELSE IF list[1].end = <<ChComma>>
    THEN <<list[1]>> \o ParsedPrefix(Tail(list))
    ELSE <<list[1]>>

Flagged(entry) == entry.d.valid = 1

OfferedList(list) == SelectSeq(ParsedPrefix(list), Flagged)

SameDescriptors(rs, offered) ==
    /\ Len(rs) = Len(offered)
    /\ \A i \in 1..Len(rs) :
        /\ rs[i].no = NumOfInt(offered[i].d.no)
        /\ rs[i].unit = NumOfInt(offered[i].d.unit)

IdQuery(no) == IF no = 11 THEN "QM 11" ELSE IF no = 21 THEN "QM 21" ELSE ""

(* C20: once the list of a measurement query has been shown, the readings
   offered are the descriptors sent up to and including the first one not
   ended by a comma, those flagged 1 only, in the order sent; a selection
   outside the offered list ends the program with SelectionOutOfRange
   before any value query, and a selection inside it is followed by the
   command QM <id> with the identifier of the descriptor selected. *)
C20_OfferedAndSelected ==
    metadata # <<>> =>
        /\ metadata.outcome = "ok" =>
              SameDescriptors(readings, OfferedList(metadata.list))
        /\ metadata.desired \notin {Unasked, NoInput} =>
              LET offered == OfferedList(metadata.list)
                  last == sent[Len(sent)]
              IN IF metadata.desired \in 0..(Len(offered) - 1)
                 THEN last.cmd = IdQuery(offered[metadata.desired + 1].d.no)
                 ELSE /\ pc = "exit" /\ err = "SelectionOutOfRange"
                      /\ last.cmd = "QM"

(* the second of two descriptors, the first not flagged, selected as (a)
   and its value fetched *)
C20_Witness ==
    /\ metadata # <<>>
    /\ Len(metadata.list) = 2
    /\ metadata.list[1].end = <<ChComma>>
    /\ metadata.list[1].d.valid = 0
    /\ metadata.list[2].d.valid = 1
    /\ metadata.desired = 0
    /\ sent[Len(sent)].cmd = "QM 11"
    /\ measurement_number = 1
    /\ pc \in {"measure_query", "measure_combine"}

(* a selection past the end of the offered list *)
C20_WitnessOutside ==
    /\ metadata # <<>>
    /\ metadata.outcome = "ok"
    /\ Len(readings) = 1
    /\ metadata.desired = 1
    /\ err = "SelectionOutOfRange"

(* descriptors after one ended by another byte are left unread *)
C20_WitnessStops ==
    /\ metadata # <<>>
    /\ metadata.outcome = "ok"
    /\ Len(metadata.list) = 2
    /\ metadata.list[1].end = <<ChSemi>>
    /\ metadata.desired = Unasked
    /\ Len(readings) = 1
    /\ rx # <<>>

----------------------------------------------------------------------------
(* The combination of two readings, against the readings themselves. *)

(* x as a whole number of units of 10^-places *)
Units10(x, places) == x.m * Pow10(places - x.e)

Places(a, b, r) == Max(a.e, Max(b.e, r.e))

IsSum(r, a, b) ==
    Units10(r, Places(a, b, r))
        = Units10(a, Places(a, b, r)) + Units10(b, Places(a, b, r))

IsDifference(r, a, b) ==
    Units10(r, Places(a, b, r))
        = Units10(a, Places(a, b, r)) - Units10(b, Places(a, b, r))

TwoReadings == "second" \in DOMAIN metadata

Finished == pc \in {"measure_title", "measure_returned"}

(* C21: under + and -, two readings of different units end the program
   with the units error and no result is shown or returned; two readings
   of one unit give, whenever a result is shown, the value a+b
   (respectively a-b, first minus second), the precision precA+precB and
   that unit. *)
C21_SumAndDifference ==
    TwoReadings /\ measurement_type \in {1, 2} =>
        IF first.unit # metadata.second.unit
        THEN pc = "exit" /\ err = "UnitsDiffer" /\ ~metadata.combined
        ELSE /\ err # "UnitsDiffer"
             /\ Finished =>
                  /\ IF measurement_type = 1
                     THEN IsSum(measurement.value, first.value,
                                metadata.second.value)
                     ELSE IsDifference(measurement.value, first.value,
                                       metadata.second.value)
                  /\ IsSum(measurement.precision, first.precision,
                           metadata.second.precision)
                  /\ measurement.unit = first.unit

(* a difference of two unequal readings of one unit, returned *)
C21_Witness ==
    /\ TwoReadings /\ measurement_type = 2
    /\ pc = "measure_returned"
    /\ first.unit = metadata.second.unit
    /\ first.value # metadata.second.value
    /\ ~NumIsZero(metadata.second.value)

(* a sum of readings of two units *)
C21_WitnessDiffer ==
    /\ TwoReadings /\ measurement_type = 1
    /\ first.unit # metadata.second.unit
    /\ err = "UnitsDiffer"

(* k times x *)
IsMultiple(r, k, x) ==
    Units10(r, Max(r.e, x.e)) = k * Units10(x, Max(r.e, x.e))

(* the precision of a product or quotient `value' before any scaling *)
UnscaledPrecision(value, a, b) ==
    NumMul(value, NumAdd(NumDiv(b.precision, b.value),
                         NumDiv(a.precision, a.value)))

ScaledBy(k, value) ==
    /\ IsMultiple(measurement.value, k, value)
    /\ IsMultiple(measurement.precision, k,
                  UnscaledPrecision(value, first, metadata.second))

(* C22: whenever the result of a division is shown, two readings of one
   unit give the unit % and the quotient and its precision multiplied by
   100, two readings of different units give the unit unitA/unitB and the
   quotient and its precision as they are; the result of a multiplication
   is the product and its precision as they are. *)
C22_QuotientAndProduct ==
    TwoReadings /\ measurement_type \in {3, 4} /\ Finished =>
        IF measurement_type = 4
        THEN IF first.unit = metadata.second.unit
             THEN /\ measurement.unit = "%"
                  /\ ScaledBy(100, NumDiv(first.value, metadata.second.value))
             ELSE /\ measurement.unit
                        = first.unit \o "/" \o metadata.second.unit
                  /\ ScaledBy(1, NumDiv(first.value, metadata.second.value))
        ELSE ScaledBy(1, NumMul(first.value, metadata.second.value))

(* a quotient of two unequal readings of one unit, returned *)
C22_Witness ==
    /\ TwoReadings /\ measurement_type = 4
    /\ pc = "measure_returned"
    /\ first.unit = metadata.second.unit
    /\ first.value # metadata.second.value

(* a quotient of readings of two units, and a product of readings of one *)
C22_WitnessDiffer ==
    /\ TwoReadings /\ measurement_type = 4
    /\ pc = "measure_returned"
    /\ first.unit # metadata.second.unit

C22_WitnessProduct ==
    /\ TwoReadings /\ measurement_type = 3
    /\ pc = "measure_returned"
    /\ first.unit = metadata.second.unit

----------------------------------------------------------------------------
(* si on its own: the formatter applied to one number, precision and unit. *)

(* prefix(degree), lines 604-611: the table looked in and the index used *)
PrefixTable(degree) == IF degree < 0 THEN "negPrefixes" ELSE "posPrefixes"

PrefixIndex(degree) == IF degree < 0 THEN 0 - degree ELSE degree

(* degree_var, lines 626-642 *)
DegreeVar(number, precision) ==
    Degree(IF number.m # 0 THEN number ELSE precision)

si(number, precision, unit) ==
    IF SiOutcome(number, precision, unit) # "ok"
    THEN [kind |-> SiOutcome(number, precision, unit),
          table |-> "", index |-> 0]
    ELSE [kind |-> "ok",
          table |-> PrefixTable(DegreeVar(number, precision)),
          index |-> PrefixIndex(DegreeVar(number, precision))]

SiMantissas == {-2, 0, 1, 999, 1000}

SiPlaces == {0, 2, 3, 24, 26, 27}

SiNumbers == {Num(m, e, "float") : m \in SiMantissas, e \in SiPlaces}

SiPrecisions == {Num(0, 0, "int"), Num(1, 3, "float"), Num(1, 27, "float")}

SiUnits == {"V", "None"}

InitSi ==
    /\ pc = "si" /\ err = ""
    /\ args = [identify |-> FALSE, datetime |-> FALSE, screenshot |-> FALSE]
    /\ baud = FastBaud
    /\ rx = <<>> /\ sent = <<>> /\ ShotIdle /\ WaveIdle /\ MeasIdle
    /\ \E number \in SiNumbers, precision \in SiPrecisions, unit \in SiUnits :
        inp = [number |-> number, precision |-> precision, unit |-> unit]
    /\ ret = <<>>

Si ==
    /\ pc = "si"
    /\ LET s == si(inp.number, inp.precision, inp.unit) IN
        /\ ret' = s
        /\ IF s.kind = "ok"
           THEN pc' = "si_done" /\ err' = err
           ELSE Exit(s.kind)
    /\ UNCHANGED <<args, baud, rx, sent, shotVars, inp, waveVars, measVars>>

NextSi == Si

SpecSi == InitSi /\ [][NextSi]_vars

(* the number whose magnitude picks the prefix, and the last index of the
   prefix tables *)
HasMagnitude == inp.number.m > 0 \/ (inp.number.m = 0 /\ inp.precision.m > 0)

OutermostPrefix == PrefixCount - 1

(* C23: for a unit that is a string and a value above 0 (or a value 0 with
   a precision above 0), si returns a string whatever the magnitude: with
   the outermost prefix when floor(log10/3) is past the tables, with the
   entry of that degree (negative table for negative degrees) otherwise. *)
C23_DegreeClamped ==
    pc \in {"si_done", "exit"} /\ inp.unit # "None" /\ HasMagnitude
    /\ inp.precision.m >= 0 =>
        /\ ret.kind = "ok"
        /\ ret.table
            = (IF DegreeVar(inp.number, inp.precision) < 0
               THEN "negPrefixes" ELSE "posPrefixes")
        /\ ret.index = Min(Abs(DegreeVar(inp.number, inp.precision)),
                           OutermostPrefix)

----------------------------------------------------------------------------
(* execute with all five operations (lines 917-931).  What happens inside
   an operation is the subject of Spec, SpecWave and SpecMeasure; here an
   operation that was started either returns or ends the program. *)

(* processArguments: four store_true flags and the waveform option, whose
   value is compared with None at line 927 *)
Arguments ==
    [identify : BOOLEAN, datetime : BOOLEAN, screenshot : BOOLEAN,
     measurement : BOOLEAN, waveform : {"True", "False"}]

RunLast == 5

RunStart(k) ==
    CASE k = 1 -> "identify"
      [] k = 2 -> "datetime_wt"
      [] k = 3 -> "shot_qp"
      [] k = 4 -> "wave_menu"
      [] k = 5 -> "measure_menu"

(* the tests of lines 918, 921, 924, 927 and 930 *)
RunSelected(k) ==
    CASE k = 1 -> args.identify
      [] k = 2 -> args.datetime
      [] k = 3 -> args.screenshot
      [] k = 4 -> args.waveform # "None"
      [] k = 5 -> args.measurement

RECURSIVE RunAfter(_)
RunAfter(k) ==
    IF k >= RunLast THEN "done"
    ELSE IF RunSelected(k + 1) THEN RunStart(k + 1) ELSE RunAfter(k + 1)

RunExecute ==
    /\ pc = "execute"
    /\ pc' = RunAfter(0)
    /\ UNCHANGED <<err, args, baud, rx, sent, shotVars, inp, ret, waveVars,
                   measVars>>

RunOperation ==
    /\ \E k \in 1..RunLast :
        /\ pc = RunStart(k)
        /\ \/ pc' = RunAfter(k) /\ err' = err
           \/ Exit("exit")
    /\ UNCHANGED <<args, baud, rx, sent, shotVars, inp, ret, waveVars,
                   measVars>>

NextRun == RunExecute \/ RunOperation

InitRun ==
    /\ pc = "execute" /\ err = ""
    /\ args \in Arguments
    /\ baud = FastBaud
    /\ rx = <<>> /\ sent = <<>> /\ ShotIdle /\ WaveIdle /\ MeasIdle
    /\ inp = <<>> /\ ret = <<>>

SpecRun == InitRun /\ [][NextRun]_vars

(* C25 as claimed: an operation is started only if its option was given on
   the command line; the waveform dialogue only with the waveform option. *)
C25_OnlySelectedOperations ==
    /\ pc = "identify" => args.identify
    /\ pc = "datetime_wt" => args.datetime
    /\ pc = "shot_qp" => args.screenshot
    /\ pc = "wave_menu" => args.waveform = "True"
    /\ pc = "measure_menu" => args.measurement

----------------------------------------------------------------------------
(* measurements (lines 882-915): the loop over measurement() and the report.
   What measurement() returns is None or drawn from a small set of results;
   how it comes to them is the subject of SpecMeasure. *)

MaxMeasurements == 3

ReturnedValues ==
    {Num(2, 3, "float"), Num(4, 0, "float"), Num(-2, 0, "float")}

ReturnedNames == {"", "T", "U"}

(* the measurement_t objects measurement() may return *)
Returned ==
    {[source |-> "Input A", unit |-> "V", value |-> v, name |-> n,
      precision |-> Num(1, 3, "float")] :
        v \in ReturnedValues, n \in ReturnedNames}

(* the string si makes of a measurement, held as what it was made from *)
Formatted(x) ==
    [number |-> x.value, precision |-> x.precision, unit |-> x.unit]

(* lines 897-898: len(x.name) decides whether x is kept *)
Retain(list, x) == IF x.name # "" THEN Append(list, x) ELSE list

(* lines 890-902: one pass of the loop *)
ReportMeasure ==
    /\ pc = "report_loop"
    /\ \/ pc' = "report_print" /\ err' = err /\ UNCHANGED reportVars
       \/ /\ Len(names) < MaxMeasurements
          /\ \E x \in Returned :
             /\ measurements' = Retain(measurements, x)
             /\ names' = Append(names, x.name)
             /\ IF SiOutcome(x.value, x.precision, x.unit) # "ok"
                THEN /\ Exit(SiOutcome(x.value, x.precision, x.unit))
                     /\ values' = values
                ELSE /\ values' = Append(values, Formatted(x))
                     /\ pc' = "report_loop" /\ err' = err
    /\ UNCHANGED <<args, baud, rx, sent, shotVars, inp, ret, waveVars,
                   measurement_type, measurement_number, readings,
                   measurement, first, metadata>>

(* lines 907-912: the rows printed, one per index of measurements *)
Rows ==
    [i \in 1..Len(measurements) |-> [name |-> names[i], value |-> values[i]]]

ReportPrint ==
    /\ pc = "report_print"
    /\ ret' = Rows
    /\ pc' = "report_done"
    /\ UNCHANGED <<err, args, baud, rx, sent, shotVars, inp, waveVars,
                   measVars>>

NextReport == ReportMeasure \/ ReportPrint

InitReport ==
    /\ pc = "report_loop" /\ err = ""
    /\ args = [identify |-> FALSE, datetime |-> FALSE, screenshot |-> FALSE]
    /\ baud = FastBaud
    /\ rx = <<>> /\ sent = <<>> /\ ShotIdle /\ WaveIdle /\ MeasIdle
    /\ inp = <<>> /\ ret = <<>>

SpecReport == InitReport /\ [][NextReport]_vars

(* C26 as claimed: the report has one row per retained measurement, in
   order, and row i shows the title and the formatted value of the i-th
   retained measurement. *)
C26_RowsAreRetained ==
    pc = "report_done" =>
        /\ Len(ret) = Len(measurements)
        /\ \A i \in 1..Len(ret) :
            /\ ret[i].name = measurements[i].name
            /\ ret[i].value = Formatted(measurements[i])

====
